---- MODULE Spec2Model ----
(***************************************************************************)
(* MEDGraphy: the Graph RAG query engine (src/graph_rag_query.py) and the   *)
(* bulk loader (src/graph_rag_loader.py) over the Neo4j accessor           *)
(* (src/graph_db.py), and the answering flows of the pages (src/app.py,    *)
(* src/streamlit_app.py).                                                  *)
(*                                                                         *)
(* A Python str is modelled as the sequence of its characters, each a      *)
(* one-character string, so that lower(), strip(), replace(), split(),     *)
(* the `in` test, re.findall and Cypher's toLower / CONTAINS / length are  *)
(* computed character by character as the code computes them.              *)
(***************************************************************************)
EXTENDS Integers, Sequences, FiniteSets, Bags, TLC

\* ------------------------------------------------------------- characters

\* The characters of the model's inputs, in code-point order.
Alphabet ==
    << " ", "'", ",", "-", ";", "?",
       "A", "B", "C", "D", "E", "F", "G", "H", "I", "J", "K", "L", "M",
       "N", "O", "P", "Q", "R", "S", "T", "U", "V", "W", "X", "Y", "Z",
       "a", "b", "c", "d", "e", "f", "g", "h", "i", "j", "k", "l", "m",
       "n", "o", "p", "q", "r", "s", "t", "u", "v", "w", "x", "y", "z" >>

UpperLetters == <<"A", "B", "C", "D", "E", "F", "G", "H", "I", "J", "K", "L", "M", "N", "O", "P", "Q", "R", "S", "T", "U", "V", "W", "X", "Y", "Z">>

LowerLetters == <<"a", "b", "c", "d", "e", "f", "g", "h", "i", "j", "k", "l", "m", "n", "o", "p", "q", "r", "s", "t", "u", "v", "w", "x", "y", "z">>

IndexIn(c, seq) == CHOOSE i \in 1..Len(seq) : seq[i] = c

Code(c) == IndexIn(c, Alphabet)

IsUpper(c) == \E i \in 1..Len(UpperLetters) : UpperLetters[i] = c

IsLower(c) == \E i \in 1..Len(LowerLetters) : LowerLetters[i] = c

\* \s of the re module and the whitespace of str.strip / str.split.
IsSpace(c) == c = " "

\* \w of the re module.
IsWordChar(c) == IsUpper(c) \/ IsLower(c)

ToLowerChar(c) == IF IsUpper(c) THEN LowerLetters[IndexIn(c, UpperLetters)] ELSE c

ToUpperChar(c) == IF IsLower(c) THEN UpperLetters[IndexIn(c, LowerLetters)] ELSE c

\* ---------------------------------------------------------------- strings

Min(S) == CHOOSE x \in S : \A y \in S : x <= y

Max(S) == CHOOSE x \in S : \A y \in S : y <= x

\* str.lower() and Cypher's toLower().
lower(s) == [i \in 1..Len(s) |-> ToLowerChar(s[i])]

upper(s) == [i \in 1..Len(s) |-> ToUpperChar(s[i])]

capitalize(s) == [i \in 1..Len(s) |-> IF i = 1 THEN ToUpperChar(s[i]) ELSE s[i]]

\* str.strip(): leading and trailing whitespace removed.
strip(s) ==
    LET keep == {i \in 1..Len(s) : ~IsSpace(s[i])}
    IN  IF keep = {} THEN << >> ELSE SubSeq(s, Min(keep), Max(keep))

\* Whether p occurs in s at index i.
StartsAt(s, p, i) ==
    /\ i >= 1
    /\ i + Len(p) - 1 <= Len(s)
    /\ SubSeq(s, i, i + Len(p) - 1) = p

\* Python's `p in s` and Cypher's `s CONTAINS p`.
Contains(s, p) == \E i \in 1..(Len(s) - Len(p) + 1) : StartsAt(s, p, i)

RECURSIVE ReplaceFrom(_, _, _, _)
ReplaceFrom(s, old, new, i) ==
    IF i > Len(s) THEN << >>
    ELSE IF StartsAt(s, old, i) THEN new \o ReplaceFrom(s, old, new, i + Len(old))
    ELSE << s[i] >> \o ReplaceFrom(s, old, new, i + 1)

\* str.replace(old, new) for a nonempty old: every occurrence, left to right,
\* not overlapping.
replace(s, old, new) == ReplaceFrom(s, old, new, 1)

\* The end of the run of whitespace that starts at i (i - 1 when there is none).
RECURSIVE SpaceRunEnd(_, _)
SpaceRunEnd(s, i) ==
    IF i <= Len(s) /\ IsSpace(s[i]) THEN SpaceRunEnd(s, i + 1) ELSE i - 1

\* The end of the run of non-whitespace that starts at i.
RECURSIVE TokenRunEnd(_, _)
TokenRunEnd(s, i) ==
    IF i <= Len(s) /\ ~IsSpace(s[i]) THEN TokenRunEnd(s, i + 1) ELSE i - 1

\* The end of the run of word characters (\w+) that starts at i.
RECURSIVE WordRunEnd(_, _)
WordRunEnd(s, i) ==
    IF i <= Len(s) /\ IsWordChar(s[i]) THEN WordRunEnd(s, i + 1) ELSE i - 1

RECURSIVE SplitFrom(_, _)
SplitFrom(s, i) ==
    IF i > Len(s) THEN << >>
    ELSE IF IsSpace(s[i]) THEN SplitFrom(s, i + 1)
    ELSE LET e == TokenRunEnd(s, i)
         IN  << SubSeq(s, i, e) >> \o SplitFrom(s, e + 1)

\* str.split(): the maximal runs of non-whitespace characters.
split(s) == SplitFrom(s, 1)

\* Lexicographic order by code point: Cypher's ORDER BY on strings.
RECURSIVE StrLess(_, _)
StrLess(a, b) ==
    IF b = << >> THEN FALSE
    ELSE IF a = << >> THEN TRUE
    ELSE IF Code(a[1]) # Code(b[1]) THEN Code(a[1]) < Code(b[1])
    ELSE StrLess(Tail(a), Tail(b))

Range(f) == {f[i] : i \in DOMAIN f}

\* The sequences that list every element of S exactly once.
Perms(S) ==
    {f \in [1..Cardinality(S) -> S] : \A i, j \in 1..Cardinality(S) : i # j => f[i] # f[j]}

\* --------------------------------------------- GraphRAGQueryEngine: tables

disease_synonyms ==
    << [main |-> <<"l", "u", "n", "g", " ", "c", "a", "n", "c", "e", "r">>,
        synonyms |-> << <<"l", "u", "n", "g", " ", "c", "a", "n", "c", "e", "r">>, <<"p", "u", "l", "m", "o", "n", "a", "r", "y", " ", "c", "a", "n", "c", "e", "r">>, <<"l", "u", "n", "g", " ", "c", "a", "r", "c", "i", "n", "o", "m", "a">>,
                        <<"b", "r", "o", "n", "c", "h", "o", "g", "e", "n", "i", "c", " ", "c", "a", "r", "c", "i", "n", "o", "m", "a">>, <<"n", "o", "n", "-", "s", "m", "a", "l", "l", " ", "c", "e", "l", "l", " ", "l", "u", "n", "g", " ", "c", "a", "n", "c", "e", "r">>,
                        <<"s", "m", "a", "l", "l", " ", "c", "e", "l", "l", " ", "l", "u", "n", "g", " ", "c", "a", "n", "c", "e", "r">> >>],
       [main |-> <<"b", "r", "e", "a", "s", "t", " ", "c", "a", "n", "c", "e", "r">>,
        synonyms |-> << <<"b", "r", "e", "a", "s", "t", " ", "c", "a", "n", "c", "e", "r">>, <<"m", "a", "m", "m", "a", "r", "y", " ", "c", "a", "n", "c", "e", "r">>, <<"b", "r", "e", "a", "s", "t", " ", "c", "a", "r", "c", "i", "n", "o", "m", "a">> >>],
       [main |-> <<"k", "i", "d", "n", "e", "y", " ", "c", "a", "n", "c", "e", "r">>,
        synonyms |-> << <<"k", "i", "d", "n", "e", "y", " ", "c", "a", "n", "c", "e", "r">>, <<"r", "e", "n", "a", "l", " ", "c", "a", "n", "c", "e", "r">>, <<"r", "e", "n", "a", "l", " ", "c", "e", "l", "l", " ", "c", "a", "r", "c", "i", "n", "o", "m", "a">> >>],
       [main |-> <<"p", "a", "n", "c", "r", "e", "a", "t", "i", "c", " ", "c", "a", "n", "c", "e", "r">>,
        synonyms |-> << <<"p", "a", "n", "c", "r", "e", "a", "t", "i", "c", " ", "c", "a", "n", "c", "e", "r">>, <<"p", "a", "n", "c", "r", "e", "a", "s", " ", "c", "a", "n", "c", "e", "r">> >>],
       [main |-> <<"b", "r", "a", "i", "n", " ", "t", "u", "m", "o", "r">>,
        synonyms |-> << <<"b", "r", "a", "i", "n", " ", "t", "u", "m", "o", "r">>, <<"b", "r", "a", "i", "n", " ", "c", "a", "n", "c", "e", "r">>, <<"c", "e", "r", "e", "b", "r", "a", "l", " ", "t", "u", "m", "o", "r">> >>],
       [main |-> <<"o", "v", "a", "r", "i", "a", "n", " ", "c", "a", "n", "c", "e", "r">>,
        synonyms |-> << <<"o", "v", "a", "r", "i", "a", "n", " ", "c", "a", "n", "c", "e", "r">>, <<"o", "v", "a", "r", "y", " ", "c", "a", "n", "c", "e", "r">> >>],
       [main |-> <<"c", "e", "r", "v", "i", "c", "a", "l", " ", "c", "a", "n", "c", "e", "r">>,
        synonyms |-> << <<"c", "e", "r", "v", "i", "c", "a", "l", " ", "c", "a", "n", "c", "e", "r">>, <<"c", "e", "r", "v", "i", "x", " ", "c", "a", "n", "c", "e", "r">> >>] >>

\* The replacement table of normalize_query, in the dict's insertion order.
replacements ==
    << [old |-> <<"l", "u", "n", "g", " ", "c", "a", "n", "c", "e", "r", "s">>, new |-> <<"l", "u", "n", "g", " ", "c", "a", "n", "c", "e", "r">>],
       [old |-> <<"b", "r", "e", "a", "s", "t", " ", "c", "a", "n", "c", "e", "r", "s">>, new |-> <<"b", "r", "e", "a", "s", "t", " ", "c", "a", "n", "c", "e", "r">>],
       [old |-> <<"w", "h", "a", "t", " ", "m", "e", "d", "i", "c", "i", "n", "e", "s", " ", "t", "r", "e", "a", "t">>, new |-> << >>],
       [old |-> <<"w", "h", "i", "c", "h", " ", "m", "e", "d", "i", "c", "i", "n", "e", "s", " ", "t", "r", "e", "a", "t">>, new |-> << >>],
       [old |-> <<"m", "e", "d", "i", "c", "i", "n", "e", "s", " ", "f", "o", "r">>, new |-> << >>],
       [old |-> <<"d", "r", "u", "g", "s", " ", "f", "o", "r">>, new |-> << >>],
       [old |-> <<"t", "r", "e", "a", "t", "m", "e", "n", "t", " ", "f", "o", "r">>, new |-> << >>],
       [old |-> <<"m", "e", "d", "i", "c", "i", "n", "e", " ", "t", "h", "a", "t", " ", "t", "r", "e", "a", "t", "s">>, new |-> << >>] >>

\* The final alternation of the regex of extract_disease_from_query.
medical_suffixes ==
    << <<"c", "a", "n", "c", "e", "r">>, <<"t", "u", "m", "o", "r">>, <<"d", "i", "s", "e", "a", "s", "e">>, <<"s", "y", "n", "d", "r", "o", "m", "e">>, <<"i", "n", "f", "e", "c", "t", "i", "o", "n">> >>

\* {0,2}: the most words the regex takes between the first word and the suffix.
MaxMiddleWords == 2

\* -------------------------------------------------------- normalize_query

RECURSIVE ApplyReplacements(_, _)
ApplyReplacements(q, k) ==
    IF k > Len(replacements) THEN q
    ELSE ApplyReplacements(replace(q, replacements[k].old, replacements[k].new), k + 1)

\* normalize_query without query.lower(): the replacements and the synonym
\* lookup then see the letters as typed.
normalize_query_no_lower(query) == strip(ApplyReplacements(strip(query), 1))

normalize_query(query) == strip(ApplyReplacements(strip(lower(query)), 1))

\* --------------------------------------------- extract_disease_from_query

\* The canonical diseases one of whose synonyms occurs in the normalized
\* query, in table order (found_diseases after the first loop).
RECURSIVE SynonymMatchesFrom(_, _)
SynonymMatchesFrom(nq, k) ==
    IF k > Len(disease_synonyms) THEN << >>
    ELSE LET e == disease_synonyms[k]
             hit == \E n \in 1..Len(e.synonyms) : Contains(nq, e.synonyms[n])
         IN  (IF hit THEN << e.main >> ELSE << >>) \o SynonymMatchesFrom(nq, k + 1)

SynonymMatches(nq) == SynonymMatchesFrom(nq, 1)

\* \b at the gap before index i.
WordBoundary(s, i) ==
    LET before == i > 1 /\ i - 1 <= Len(s) /\ IsWordChar(s[i - 1])
        after == i >= 1 /\ i <= Len(s) /\ IsWordChar(s[i])
    IN  before # after

\* (\s+\w+) from index i: the end of the word, or 0 when there is none.
NextWordEnd(s, i) ==
    LET sp == SpaceRunEnd(s, i)
        we == WordRunEnd(s, sp + 1)
    IN  IF sp >= i /\ we >= sp + 1 THEN we ELSE 0

\* (?:\s+\w+){n} from index i: the end after n words, or 0.
RECURSIVE SkipWords(_, _, _)
SkipWords(s, i, n) ==
    IF n = 0 THEN i - 1
    ELSE LET e == NextWordEnd(s, i)
         IN  IF e = 0 THEN 0 ELSE SkipWords(s, e + 1, n - 1)

\* (?:\s+cancer|...)\b from index i: the end of the suffix, or 0.
SuffixEnd(s, i) ==
    LET sp == SpaceRunEnd(s, i)
        hits == {k \in 1..Len(medical_suffixes) :
                    /\ sp >= i
                    /\ StartsAt(lower(s), medical_suffixes[k], sp + 1)
                    /\ WordBoundary(s, sp + 1 + Len(medical_suffixes[k]))}
    IN  IF hits = {} THEN 0 ELSE sp + Len(medical_suffixes[Min(hits)])

\* The match of the whole regex that starts at index i: its end, or 0. The
\* greedy {0,2} is tried with the most middle words first.
RECURSIVE MatchEndWith(_, _, _)
MatchEndWith(s, i, n) ==
    LET w1 == WordRunEnd(s, i)
        mid == SkipWords(s, w1 + 1, n)
        e == IF mid = 0 THEN 0 ELSE SuffixEnd(s, mid + 1)
    IN  IF e > 0 THEN e
        ELSE IF n = 0 THEN 0
        ELSE MatchEndWith(s, i, n - 1)

MatchEnd(s, i) ==
    IF WordBoundary(s, i) /\ i <= Len(s) /\ IsWordChar(s[i])
    THEN MatchEndWith(s, i, MaxMiddleWords)
    ELSE 0

RECURSIVE FindAllFrom(_, _)
FindAllFrom(s, i) ==
    IF i > Len(s) THEN << >>
    ELSE LET e == MatchEnd(s, i)
         IN  IF e > 0 THEN << SubSeq(s, i, e) >> \o FindAllFrom(s, e + 1)
             ELSE FindAllFrom(s, i + 1)

\* re.findall of the medical-term regex: the matches, left to right.
medical_terms(nq) == FindAllFrom(nq, 1)

\* found_diseases with a positional rule after the regex: what follows " for ".
found_diseases_with_for_pattern(query) ==
    LET nq == normalize_query(query)
        syn == SynonymMatches(nq)
        terms == medical_terms(nq)
        at == {i \in 1..Len(nq) : StartsAt(nq, <<" ", "f", "o", "r", " ">>, i)}
    IN  IF syn # << >> THEN syn
        ELSE IF terms # << >> THEN [k \in 1..Len(terms) |-> strip(terms[k])]
        ELSE IF at # {} THEN << strip(SubSeq(nq, Min(at) + 5, Len(nq))) >>
        ELSE << >>

\* found_diseases with the regex applied whether or not a synonym matched.
found_diseases_always_regex(query) ==
    LET nq == normalize_query(query)
        terms == medical_terms(nq)
    IN  SynonymMatches(nq) \o [k \in 1..Len(terms) |-> strip(terms[k])]

\* found_diseases falling back to the whole normalized query when neither
\* the table nor the regex finds a condition.
found_diseases_query_as_fallback(query) ==
    LET nq == normalize_query(query)
        syn == SynonymMatches(nq)
        terms == medical_terms(nq)
    IN  IF syn # << >> THEN syn
        ELSE IF terms # << >> THEN [k \in 1..Len(terms) |-> strip(terms[k])]
        ELSE << nq >>

\* found_diseases before list(set(...)): the synonym hits, else the regex hits.
found_diseases(query) ==
    LET nq == normalize_query(query)
        syn == SynonymMatches(nq)
        terms == medical_terms(nq)
    IN  IF syn # << >> THEN syn ELSE [k \in 1..Len(terms) |-> strip(terms[k])]

\* list(set(found_diseases)): the distinct elements in an order that the
\* hash seed of the process decides; every order is a possible result.
extract_disease_from_query(query) == Perms(Range(found_diseases(query)))

\* ------------------------------------------------------------ the graph

\* A null column of a Cypher row (an OPTIONAL MATCH that found nothing).
Null == "null"

\* The medicine and disease names the model's graphs are built from. Disease
\* names keep the letter case of the CSV; two of them differ only in case.
MedicineNames == { <<"A", "d", "v", "a", "c", "a", "n">>, <<"Z", "o", "l", "e", "t", "a">> }

DiseaseNames ==
    { <<"L", "u", "n", "g", " ", "c", "a", "n", "c", "e", "r">>, <<"L", "u", "n", "g", " ", "C", "a", "n", "c", "e", "r">>, <<"N", "o", "n", "-", "s", "m", "a", "l", "l", " ", "c", "e", "l", "l", " ", "l", "u", "n", "g", " ", "c", "a", "n", "c", "e", "r">>,
      <<"F", "e", "v", "e", "r">>, <<"H", "i", "g", "h", " ", "f", "e", "v", "e", "r">>, <<"S", "k", "i", "n", " ", "i", "n", "f", "e", "c", "t", "i", "o", "n">> }

\* (m)-[:HAS_COMPOSITION]->(c) and (m)-[:MANUFACTURED_BY]->(man) of the
\* model's graphs: one medicine as the loader writes it, one with two
\* compositions and no manufacturer.
CompositionEdges ==
    { << <<"A", "d", "v", "a", "c", "a", "n">>, "Everolimus" >>,
      << <<"Z", "o", "l", "e", "t", "a">>, "Letrozole" >>, << <<"Z", "o", "l", "e", "t", "a">>, "Zoledronic acid" >> }

ManufacturerEdges == { << <<"A", "d", "v", "a", "c", "a", "n">>, "Biocon" >> }

\* (m)-[:HAS_SIDE_EFFECT]->(s) of the model's graphs.
SideEffectEdges ==
    { << <<"A", "d", "v", "a", "c", "a", "n">>, <<"F", "e", "v", "e", "r">> >>, << <<"A", "d", "v", "a", "c", "a", "n">>, <<"N", "a", "u", "s", "e", "a">> >>,
      << <<"Z", "o", "l", "e", "t", "a">>, <<"N", "a", "u", "s", "e", "a">> >> }

\* A node: its label, its name, and the properties the loader sets on it
\* (Null for a property the node does not have).
Node(label, name, normalized_name, composition, manufacturer) ==
    [label |-> label, name |-> name, normalized_name |-> normalized_name,
     composition |-> composition, manufacturer |-> manufacturer]

\* The Medicine nodes of the model's graphs.
MedicineNodes ==
    { Node("Medicine", <<"A", "d", "v", "a", "c", "a", "n">>, <<"a", "d", "v", "a", "c", "a", "n">>, "Everolimus", "Biocon"),
      Node("Medicine", <<"Z", "o", "l", "e", "t", "a">>, <<"z", "o", "l", "e", "t", "a">>, "Zoledronic acid", Null) }

\* The nodes at the far end of the edges of a relationship.
TargetNodes(label, rel) ==
    { Node(label, e[2], IF label \in {"Disease", "SideEffect"} THEN lower(e[2]) ELSE Null,
           Null, Null) : e \in rel }

\* The most USED_FOR edges of a graph of the model.
MaxEdges == 2

\* The loaded graphs the engine is run over: the nodes (a bag: one copy of
\* every node), and the edges of each relationship as (medicine, name) pairs.
Graphs ==
    { [nodes |-> SetToBag(MedicineNodes \cup TargetNodes("Disease", U)
                            \cup TargetNodes("Composition", CompositionEdges)
                            \cup TargetNodes("Manufacturer", ManufacturerEdges)
                            \cup TargetNodes("SideEffect", SideEffectEdges)),
       used_for |-> U, has_composition |-> CompositionEdges,
       manufactured_by |-> ManufacturerEdges, has_side_effect |-> SideEffectEdges] :
        U \in {U \in SUBSET (MedicineNames \X DiseaseNames) : Cardinality(U) <= MaxEdges} }

\* OPTIONAL MATCH (m)-[rel]->(x): the names x, or one null.
OptionalMatch(rel, m) ==
    LET found == {e[2] : e \in {e \in rel : e[1] = m}}
    IN  IF found = {} THEN {Null} ELSE found

\* MATCH (m:Medicine)-[:USED_FOR]->(d:Disease) for one edge e, with the two
\* OPTIONAL MATCHes: the rows RETURN DISTINCT projects (word_matches is 0 in
\* the queries that do not return it).
RowsOfEdge(g, e, word_matches) ==
    { [medicine |-> e[1], disease_treated |-> e[2], composition |-> c,
       manufacturer |-> man, word_matches |-> word_matches] :
        c \in OptionalMatch(g.has_composition, e[1]),
        man \in OptionalMatch(g.manufactured_by, e[1]) }

\* Strategy 1 without the toLower calls: WHERE d.name = $disease_query.
exact_rows_case_sensitive(g, disease_query) ==
    UNION { RowsOfEdge(g, e, 0) : e \in {e \in g.used_for : e[2] = disease_query} }

\* Strategy 1: WHERE toLower(d.name) = toLower($disease_query).
exact_rows(g, disease_query) ==
    UNION { RowsOfEdge(g, e, 0) :
            e \in {e \in g.used_for : lower(e[2]) = lower(disease_query)} }

\* Strategy 2: WHERE toLower(d.name) CONTAINS toLower($disease_query).
contains_rows(g, disease_query) ==
    UNION { RowsOfEdge(g, e, 0) :
            e \in {e \in g.used_for : Contains(lower(e[2]), lower(disease_query))} }

\* size([word IN $words WHERE toLower(d.name) CONTAINS word]).
WordMatches(name, words) ==
    Cardinality({k \in 1..Len(words) : Contains(lower(name), words[k])})

\* Strategy 3: WHERE ANY(word IN $words ...) ... WHERE word_matches >= 1.
word_rows(g, words) ==
    UNION { RowsOfEdge(g, e, WordMatches(e[2], words)) :
            e \in {e \in g.used_for :
                    /\ \E k \in 1..Len(words) : Contains(lower(e[2]), words[k])
                    /\ WordMatches(e[2], words) >= 1} }

\* ORDER BY with word_matches ascending (DESC left out of the word query).
OrderedBefore_matches_ascending(strategy, a, b) ==
    LET byName == StrLess(a.medicine, b.medicine)
        byLength ==
            \/ Len(a.disease_treated) < Len(b.disease_treated)
            \/ Len(a.disease_treated) = Len(b.disease_treated) /\ byName
    IN  CASE strategy = "exact" -> byName
          [] strategy = "contains" -> byLength
          [] strategy = "words" ->
                \/ a.word_matches < b.word_matches
                \/ a.word_matches = b.word_matches /\ byLength

\* ORDER BY with the substring query ordered by m.name alone (its
\* length(d.name) key left out).
OrderedBefore_contains_by_name(strategy, a, b) ==
    LET byName == StrLess(a.medicine, b.medicine)
        byLength ==
            \/ Len(a.disease_treated) < Len(b.disease_treated)
            \/ Len(a.disease_treated) = Len(b.disease_treated) /\ byName
    IN  CASE strategy = "exact" -> byName
          [] strategy = "contains" -> byName
          [] strategy = "words" ->
                \/ a.word_matches > b.word_matches
                \/ a.word_matches = b.word_matches /\ byLength

\* ORDER BY: whether row a must come before row b.
\*   exact:    ORDER BY m.name
\*   contains: ORDER BY length(d.name) ASC, m.name
\*   words:    ORDER BY word_matches DESC, length(d.name) ASC, m.name
OrderedBefore(strategy, a, b) ==
    LET byName == StrLess(a.medicine, b.medicine)
        byLength ==
            \/ Len(a.disease_treated) < Len(b.disease_treated)
            \/ Len(a.disease_treated) = Len(b.disease_treated) /\ byName
    IN  CASE strategy = "exact" -> byName
          [] strategy = "contains" -> byLength
          [] strategy = "words" ->
                \/ a.word_matches > b.word_matches
                \/ a.word_matches = b.word_matches /\ byLength

\* The orders in which the store may return the rows: every listing of the
\* rows that respects ORDER BY (rows with equal keys come in either order).
RECURSIVE OrderedResults(_, _)
OrderedResults(strategy, rows) ==
    IF rows = {} THEN { << >> }
    ELSE UNION { { << r >> \o rest : rest \in OrderedResults(strategy, rows \ {r}) } :
                 r \in {r \in rows : \A o \in rows : ~OrderedBefore(strategy, o, r)} }

\* ---------------------------------------------------- Neo4jConnection.query

\* The response when running the query raised: the except branch prints and
\* the method returns response = None.
None == [is_none |-> TRUE, rows |-> << >>]

\* The response list(session.run(...)) of a query that ran.
Response(rows) == [is_none |-> FALSE, rows |-> rows]

\* `if len(results) > 1` in place of `if results`.
Truthy_more_than_one(response) == ~response.is_none /\ Len(response.rows) > 1

\* `if results is not None` in place of `if results`.
Truthy_not_none(response) == ~response.is_none

\* Python's truth value of a response: None and the empty list are false.
Truthy(response) == ~response.is_none /\ response.rows # << >>

\* The possible return values of db.query for a query whose ordered results
\* are `results`.
db_query(store_reachable, results) ==
    IF store_reachable THEN {Response(rs) : rs \in results} ELSE {None}

\* ------------------------------------------------------------------ state

VARIABLES
    graph,               \* the Neo4j graph behind self.db
    store_reachable,     \* whether running a query on the store succeeds
    pc,                  \* where the request being served stands
    query,               \* the query of the request
    normalized_query,    \* answer_natural_language_query: normalized_query
    extracted_diseases,  \* answer_natural_language_query: extracted_diseases
    position,            \* index of the for loop over extracted_diseases
    searched,            \* the terms passed to semantic_disease_search so far
    disease_query,       \* semantic_disease_search: its argument
    issued,              \* the queries the running search has sent to the store
    exact_results,       \* semantic_disease_search: exact_results
    contains_results,    \* semantic_disease_search: contains_results
    word_results,        \* semantic_disease_search: word_results
    search_results,      \* the list semantic_disease_search returned
    all_medicines,       \* answer_natural_language_query: all_medicines
    results,             \* answer_natural_language_query: results
    medicine_info,       \* what get_comprehensive_medicine_info returned
    statement,           \* Neo4jConnection.query: the query it was called with
    session,             \* Neo4jConnection.query: session
    query_response,      \* Neo4jConnection.query: response
    open_sessions,       \* the sessions of the driver that are open
    sessions_opened,     \* the number of sessions the driver has opened
    csv,                 \* load_csv_to_graph: the file at csv_path
    df,                  \* load_csv_to_graph: df
    row_index,           \* load_csv_to_graph: the row the for loop is at
    medicine,            \* load_csv_to_graph: medicine
    successful_loads,    \* load_csv_to_graph: successful_loads
    failed_loads,        \* load_csv_to_graph: failed_loads
    constraints,         \* the uniqueness constraints of the store
    load_log,            \* the steps of the running load, in order
    previous_load,       \* the file and the graph of the load before
    page,                \* the page flow being served and its inputs
    context,             \* the page flow: what retrieval gave it
    llm_reachable,       \* whether a call of the LLM API succeeds
    llm_calls,           \* the calls made to the LLM, with their context
    shown,               \* what the page has shown, in order
    uses_field,          \* parse_uses_field: the text it was called with
    parsed_uses,         \* parse_uses_field: the list it returned
    cypher_input,        \* generate_cypher_query: the text it was called with
    cypher               \* generate_cypher_query: what it returned

request_vars == << query, normalized_query, extracted_diseases >>

loop_vars == << position, searched, all_medicines, results >>

search_vars ==
    << disease_query, issued, exact_results, contains_results, word_results,
       search_results >>

engine_vars == << request_vars, loop_vars, search_vars, medicine_info >>

session_vars ==
    << statement, session, query_response, open_sessions, sessions_opened >>

load_vars ==
    << csv, df, row_index, medicine, successful_loads, failed_loads, constraints,
       load_log, previous_load >>

page_vars == << page, context, llm_reachable, llm_calls, shown >>

\* The state outside the query engine.
\* The arguments and the return values of the functions called alone.
call_vars == << uses_field, parsed_uses, cypher_input, cypher >>

other_vars == << session_vars, load_vars, page_vars, call_vars >>

vars == << graph, store_reachable, pc, engine_vars, other_vars >>

\* The results dict as answer_natural_language_query first builds it.
EmptyResults ==
    [medicines_found |-> << >>, total_medicines |-> 0,
     search_strategies_used |-> << >>]

\* A local variable that is not bound yet, and one bound to a value.
Unbound == [bound |-> FALSE, value |-> << >>]

Bound(value) == [bound |-> TRUE, value |-> value]

\* Neo4jConnection.query, line 41: session = None.
NoSession == 0

\* No query is being run.
NoStatement == [kind |-> "none", term |-> << >>]

\* No file: the value of csv and df outside load_csv_to_graph.
NoCsv == [readable |-> FALSE, columns |-> {}, rows |-> << >>]

\* The empty graph.
NoGraph ==
    [nodes |-> EmptyBag, used_for |-> {}, has_composition |-> {},
     manufactured_by |-> {}, has_side_effect |-> {}]

\* No load has ended yet.
NoLoad == [ended |-> FALSE, csv |-> NoCsv, graph |-> NoGraph]

\* No page flow is being served.
NoPage == [flow |-> "none", text |-> << >>, lines |-> << >>]

\* What generate_cypher_query has returned when it has not been called.
NoCypher == [is_none |-> TRUE, template |-> "none", disease |-> << >>]

\* No query call, no load and no page flow is running.
Rest ==
    /\ statement = NoStatement
    /\ session = NoSession
    /\ query_response = None
    /\ open_sessions = {}
    /\ sessions_opened = 0
    /\ csv = NoCsv
    /\ df = NoCsv
    /\ row_index = 0
    /\ medicine = Unbound
    /\ successful_loads = 0
    /\ failed_loads = 0
    /\ constraints = {}
    /\ load_log = << >>
    /\ previous_load = NoLoad
    /\ page = NoPage
    /\ context = Unbound
    /\ llm_calls = << >>
    /\ shown = << >>
    /\ uses_field = << >>
    /\ parsed_uses = << >>
    /\ cypher_input = << >>
    /\ cypher = NoCypher

\* No request is being served.
Idle ==
    /\ pc = "idle"
    /\ medicine_info = << >>
    /\ query = << >>
    /\ normalized_query = << >>
    /\ extracted_diseases = << >>
    /\ position = 0
    /\ searched = << >>
    /\ disease_query = << >>
    /\ issued = << >>
    /\ exact_results = None
    /\ contains_results = None
    /\ word_results = None
    /\ search_results = << >>
    /\ all_medicines = << >>
    /\ results = EmptyResults

\* The questions put to answer_natural_language_query.
Questions ==
    { <<"m", "e", "d", "i", "c", "i", "n", "e", "s", " ", "f", "o", "r", " ", "l", "u", "n", "g", " ", "c", "a", "n", "c", "e", "r">>,
      <<"W", "h", "i", "c", "h", " ", "m", "e", "d", "i", "c", "i", "n", "e", "s", " ", "t", "r", "e", "a", "t", " ", "L", "u", "n", "g", " ", "C", "a", "n", "c", "e", "r", "?">>,
      <<"d", "r", "u", "g", " ", "f", "o", "r", " ", "h", "i", "g", "h", " ", "f", "e", "v", "e", "r">>,
      <<"l", "u", "n", "g", " ", "c", "a", "n", "c", "e", "r", "s", " ", "a", "n", "d", " ", "b", "r", "e", "a", "s", "t", " ", "c", "a", "n", "c", "e", "r">>,
      <<"s", "k", "i", "n", " ", "i", "n", "f", "e", "c", "t", "i", "o", "n">>,
      <<"s", "k", "i", "n", " ", "i", "n", "f", "e", "c", "t", "i", "o", "n", " ", "a", "n", "d", " ", "k", "i", "d", "n", "e", "y", " ", "d", "i", "s", "e", "a", "s", "e">>,
      <<"s", "m", "a", "l", "l", " ", "c", "e", "l", "l", " ", "l", "u", "n", "g", " ", "c", "a", "n", "c", "e", "r">>,
      <<"t", "r", "e", "a", "t", "m", "e", "n", "t", " ", "f", "o", "r", " ", "b", "r", "a", "i", "n", " ", "t", "u", "m", "o", "r">>,
      <<"p", "a", "n", "c", "r", "e", "a", "t", "i", "c", " ", "c", "a", "n", "c", "e", "r">>,
      <<"h", "i", "g", "h", " ", "l", "u", "n", "g", " ", "f", "e", "v", "e", "r">>,
      <<"c", "a", "n", "c", "e", "r">>,
      <<"f", "e", "v", "e", "r">>,
      <<"h", "e", "a", "d", "a", "c", "h", "e">>,
      <<"m", "e", "d", "i", "c", "i", "n", "e", "s", " ", "f", "o", "r">>,
      << >> }

\* The engine is constructed over a loaded graph whose store answers.
Init ==
    /\ graph \in Graphs
    /\ store_reachable = TRUE
    /\ llm_reachable = TRUE
    /\ Idle
    /\ Rest

\* ------------------------------------------ answer_natural_language_query

\* Lines 143-156: normalize, extract, build the results dict.
answer_begin ==
    /\ pc = "idle"
    /\ \E q \in Questions :
        /\ query' = q
        /\ normalized_query' = normalize_query(q)
        /\ extracted_diseases' \in extract_disease_from_query(q)
    /\ position' = 1
    /\ pc' = "for"
    /\ UNCHANGED << graph, store_reachable, medicine_info, other_vars, searched, all_medicines, results, search_vars >>

\* The call of semantic_disease_search(term).
CallSearch(term) ==
    /\ disease_query' = term
    /\ searched' = Append(searched, term)
    /\ issued' = << >>
    /\ exact_results' = None
    /\ contains_results' = None
    /\ word_results' = None
    /\ search_results' = << >>
    /\ pc' = "strategy1"

\* Lines 157-158: the next extracted disease is searched.
search_extracted ==
    /\ pc = "for"
    /\ position <= Len(extracted_diseases)
    /\ CallSearch(extracted_diseases[position])
    /\ UNCHANGED << graph, store_reachable, medicine_info, other_vars, request_vars, position, all_medicines, results >>

\* The whole normalized query searched also when the extracted diseases
\* found no medicine.
search_direct_when_nothing_found ==
    /\ pc = "for"
    /\ \/ extracted_diseases = << >>
       \/ /\ position > Len(extracted_diseases)
          /\ all_medicines = << >>
          /\ normalized_query \notin Range(searched)
    /\ CallSearch(normalized_query)
    /\ UNCHANGED << graph, store_reachable, medicine_info, other_vars, request_vars, position, all_medicines, results >>

\* Lines 164-165: nothing was extracted, the whole normalized query is searched.
search_direct ==
    /\ pc = "for"
    /\ extracted_diseases = << >>
    /\ CallSearch(normalized_query)
    /\ UNCHANGED << graph, store_reachable, medicine_info, other_vars, request_vars, position, all_medicines, results >>

\* ------------------------------------------------ semantic_disease_search

\* Lines 94-97: strategy 1, the exact match.
strategy1 ==
    /\ pc = "strategy1"
    /\ \E response \in db_query(store_reachable,
                                OrderedResults("exact", exact_rows(graph, disease_query))) :
        /\ exact_results' = response
        /\ search_results' = IF Truthy(response) THEN response.rows ELSE search_results
        /\ pc' = IF Truthy(response) THEN "returned" ELSE "strategy2"
    /\ issued' = Append(issued, "exact")
    /\ UNCHANGED << graph, store_reachable, medicine_info, other_vars, request_vars, loop_vars, disease_query,
                    contains_results, word_results >>

\* Lines 112-115: strategy 2, the substring match.
strategy2 ==
    /\ pc = "strategy2"
    /\ \E response \in db_query(store_reachable,
                                OrderedResults("contains", contains_rows(graph, disease_query))) :
        /\ contains_results' = response
        /\ search_results' = IF Truthy(response) THEN response.rows ELSE search_results
        /\ pc' = IF Truthy(response) THEN "returned" ELSE "strategy3"
    /\ issued' = Append(issued, "contains")
    /\ UNCHANGED << graph, store_reachable, medicine_info, other_vars, request_vars, loop_vars, disease_query,
                    exact_results, word_results >>

\* `len(words) > 2` in place of `len(words) > 1`.
SendsWordQuery_more_than_two(words) == Len(words) > 2

\* Line 119: the word query is sent only for a term of more than one word.
SendsWordQuery(words) == Len(words) > 1

\* Lines 118-139: strategy 3, the word query, or the final return []. The
\* comprehension over a None response raises TypeError, which leaves
\* semantic_disease_search and answer_natural_language_query.
strategy3 ==
    /\ pc = "strategy3"
    /\ LET words == split(lower(disease_query))
       IN  IF SendsWordQuery(words)
           THEN /\ \E response \in db_query(store_reachable,
                                            OrderedResults("words", word_rows(graph, words))) :
                    /\ word_results' = response
                    /\ search_results' = response.rows
                    /\ pc' = IF response.is_none THEN "raised" ELSE "returned"
                /\ issued' = Append(issued, "words")
           ELSE /\ search_results' = << >>
                /\ pc' = "returned"
                /\ UNCHANGED << word_results, issued >>
    /\ UNCHANGED << graph, store_reachable, medicine_info, other_vars, request_vars, loop_vars, disease_query,
                    exact_results, contains_results >>

\* ------------------------------------------ answer_natural_language_query

\* The entry appended to results['search_strategies_used'].
StrategyNote(term) ==
    IF extracted_diseases = << >>
    THEN [note |-> "Direct search with query", disease |-> << >>]
    ELSE [note |-> "Found medicines for", disease |-> term]

\* Lines 159-161 and 166-168: the rows of a search are collected.
search_return ==
    /\ pc = "returned"
    /\ all_medicines' = all_medicines \o search_results
    /\ results' =
        IF search_results # << >>
        THEN [results EXCEPT !.search_strategies_used = Append(@, StrategyNote(disease_query))]
        ELSE results
    /\ position' = position + 1
    /\ pc' = IF extracted_diseases = << >> THEN "format" ELSE "for"
    /\ UNCHANGED << graph, store_reachable, medicine_info, other_vars, request_vars, searched, search_vars >>

\* Every row kept, whether or not its medicine was met before.
unique_medicines_keeping_all(rows) ==
    [k \in 1..Len(rows) |-> [row |-> rows[k], first |-> TRUE]]

\* Lines 171-175: unique_medicines keeps the first row of every medicine name.
unique_medicines(rows) ==
    SelectSeq([k \in 1..Len(rows) |->
                  [row |-> rows[k],
                   first |-> \A j \in 1..(k - 1) : rows[j].medicine # rows[k].medicine]],
              LAMBDA x : x.first)

\* Lines 170-180: duplicates are removed and the results are returned.
format_results ==
    /\ \/ pc = "format"
       \/ pc = "for" /\ extracted_diseases # << >> /\ position > Len(extracted_diseases)
    /\ LET unique == unique_medicines(all_medicines)
       IN  results' = [results EXCEPT
                          !.medicines_found = [k \in 1..Len(unique) |-> unique[k].row],
                          !.total_medicines = Len(unique)]
    /\ pc' = "done"
    /\ UNCHANGED << graph, store_reachable, medicine_info, other_vars, request_vars, position, searched,
                    all_medicines, search_vars >>

\* ---------------------------------------- get_comprehensive_medicine_info

\* A medicine name that no graph of the model holds.
UnknownMedicine == <<"K", "e", "l", "v", "i", "n">>

\* The names at the far end of the edges of a relationship from a medicine.
Collected(rel, m) == {e[2] : e \in {e \in rel : e[1] = m}}

\* Lines 63-74: MATCH (m:Medicine {name: $medicine_name}) with its four
\* OPTIONAL MATCHes; one row for every (composition, manufacturer) of every
\* matched node. collect(DISTINCT ...) gives a list whose order the query
\* does not fix: it is held as the set of its elements.
medicine_info_rows(g, medicine_name) ==
    { [medicine |-> n.name, composition |-> c, manufacturer |-> man,
       diseases_treated |-> Collected(g.used_for, n.name),
       side_effects |-> Collected(g.has_side_effect, n.name)] :
        n \in {n \in BagToSet(g.nodes) : n.label = "Medicine" /\ n.name = medicine_name},
        c \in OptionalMatch(g.has_composition, medicine_name),
        man \in OptionalMatch(g.manufactured_by, medicine_name) }

\* The query written with MERGE in place of MATCH: a medicine that is not in
\* the graph is created by the lookup.
get_comprehensive_medicine_info_merging ==
    /\ pc = "idle"
    /\ \E medicine_name \in MedicineNames \cup {UnknownMedicine} :
        /\ graph' =
              IF medicine_info_rows(graph, medicine_name) = {}
              THEN [graph EXCEPT !.nodes =
                        @ (+) SetToBag({Node("Medicine", medicine_name, Null, Null, Null)})]
              ELSE graph
        /\ \E response \in db_query(store_reachable,
                                    Perms(medicine_info_rows(graph', medicine_name))) :
              medicine_info' = IF ~response.is_none /\ response.rows # << >>
                               THEN response.rows[1] ELSE << >>
    /\ pc' = "info"
    /\ UNCHANGED << store_reachable, request_vars, loop_vars, search_vars, other_vars >>

\* Lines 61-77: the query is run and `dict(result[0]) if result else {}` is
\* returned; the rows come in an order the query does not fix.
get_comprehensive_medicine_info ==
    /\ pc = "idle"
    /\ \E medicine_name \in MedicineNames \cup {UnknownMedicine} :
       \E response \in db_query(store_reachable,
                                 Perms(medicine_info_rows(graph, medicine_name))) :
          medicine_info' = IF ~response.is_none /\ response.rows # << >>
                               THEN response.rows[1] ELSE << >>
    /\ pc' = "info"
    /\ UNCHANGED << graph, store_reachable, request_vars, loop_vars, search_vars, other_vars >>

\* src/app.py, tab 1: the request is over (its result shown, the details of
\* a medicine shown, or the exception caught and reported) and the page
\* waits for the next question.
next_request ==
    /\ pc \in {"done", "raised", "info"}
    /\ pc' = "idle"
    /\ query' = << >>
    /\ normalized_query' = << >>
    /\ extracted_diseases' = << >>
    /\ position' = 0
    /\ searched' = << >>
    /\ disease_query' = << >>
    /\ issued' = << >>
    /\ exact_results' = None
    /\ contains_results' = None
    /\ word_results' = None
    /\ search_results' = << >>
    /\ all_medicines' = << >>
    /\ results' = EmptyResults
    /\ medicine_info' = << >>
    /\ UNCHANGED << graph, store_reachable, other_vars >>

Next ==
    \/ answer_begin
    \/ search_extracted
    \/ search_direct
    \/ strategy1
    \/ strategy2
    \/ strategy3
    \/ search_return
    \/ format_results
    \/ get_comprehensive_medicine_info
    \/ next_request

Spec == Init /\ [][Next]_vars

\* ------------------------------------- extract_disease_from_query, alone

\* The phrasings of the synonym table.
Phrasings ==
    UNION { Range(disease_synonyms[k].synonyms) : k \in 1..Len(disease_synonyms) }

\* The filler phrases normalize_query removes.
Fillers ==
    { replacements[k].old : k \in {k \in 1..Len(replacements) : replacements[k].new = << >>} }

\* What precedes the body of a question: nothing, or a filler phrase with or
\* without a space after it.
Prefixes == { << >> } \cup Fillers \cup { f \o <<" ">> : f \in Fillers }

\* Bodies that hold no phrasing of the table, or more than one.
OtherBodies ==
    { <<"d", "r", "u", "g", " ", "f", "o", "r", " ", "h", "i", "g", "h", " ", "f", "e", "v", "e", "r">>, <<"s", "k", "i", "n", " ", "i", "n", "f", "e", "c", "t", "i", "o", "n">>, <<"c", "h", "r", "o", "n", "i", "c", " ", "k", "i", "d", "n", "e", "y", " ", " ", "d", "i", "s", "e", "a", "s", "e">>,
      <<"r", "a", "r", "e", " ", "x", "-", "l", "i", "n", "k", "e", "d", " ", "s", "y", "n", "d", "r", "o", "m", "e">>, <<"c", "a", "n", "c", "e", "r">>, <<"h", "e", "a", "d", "a", "c", "h", "e">>, << >>,
      <<"l", "u", "n", "g", " ", "c", "a", "n", "c", "e", "r", "s", " ", "a", "n", "d", " ", "b", "r", "e", "a", "s", "t", " ", "c", "a", "n", "c", "e", "r", "s">>, <<"c", "e", "r", "v", "i", "x", " ", "c", "a", "n", "c", "e", "r", " ", "o", "r", " ", "o", "v", "a", "r", "y", " ", "c", "a", "n", "c", "e", "r">>,
      <<"s", "k", "i", "n", " ", "i", "n", "f", "e", "c", "t", "i", "o", "n", " ", "o", "r", " ", "s", "k", "i", "n", " ", "i", "n", "f", "e", "c", "t", "i", "o", "n">>, <<"l", "u", "n", "g", " ", "d", "i", "s", "e", "a", "s", "e", " ", "a", "n", "d", " ", "b", "r", "a", "i", "n", " ", "c", "a", "n", "c", "e", "r">> }

Tails == { << >>, <<"s">>, <<" ", "?">> }

\* The letter cases a question is typed in: 1 as written, 2 upper case,
\* 3 capitalized.
LetterCases == 1..3

InCase(c, s) == CASE c = 1 -> s [] c = 2 -> upper(s) [] c = 3 -> capitalize(s)

ExtractQuestions ==
    { InCase(c, p \o b \o t) :
        c \in LetterCases, p \in Prefixes, b \in Phrasings \cup OtherBodies, t \in Tails }

InitExtract ==
    /\ graph = NoGraph
    /\ store_reachable = TRUE
    /\ llm_reachable = TRUE
    /\ Idle
    /\ Rest

\* extract_disease_from_query(q) is called and returns.
extract_call ==
    /\ pc = "idle"
    /\ \E q \in ExtractQuestions :
        /\ query' = q
        /\ normalized_query' = normalize_query(q)
        /\ extracted_diseases' \in extract_disease_from_query(q)
    /\ pc' = "extracted"
    /\ UNCHANGED << graph, store_reachable, medicine_info, other_vars, loop_vars, search_vars >>

\* The caller is done with the list.
extract_done ==
    /\ pc = "extracted"
    /\ pc' = "idle"
    /\ query' = << >>
    /\ normalized_query' = << >>
    /\ extracted_diseases' = << >>
    /\ UNCHANGED << graph, store_reachable, medicine_info, other_vars, loop_vars, search_vars >>

NextExtract == extract_call \/ extract_done

SpecExtract == InitExtract /\ [][NextExtract]_vars

\* ------------------------------------ Neo4jConnection.query, step by step

\* The most sessions the driver opens in a run of SpecQuery.
MaxSessions == 2

\* The terms of the queries run in SpecQuery.
StatementTerms == { <<"l", "u", "n", "g", " ", "c", "a", "n", "c", "e", "r">>, <<"f", "e", "v", "e", "r">>, <<"h", "i", "g", "h", " ", "l", "u", "n", "g", " ", "f", "e", "v", "e", "r">> }

\* The queries run in SpecQuery: the three queries of
\* semantic_disease_search, each with its parameter.
Statements ==
    { [kind |-> kind, term |-> term] :
        kind \in {"exact", "contains", "words"}, term \in StatementTerms }

\* The lists list(session.run(query, parameters)) may give for a statement.
StatementResults(g, s) ==
    CASE s.kind = "exact" -> OrderedResults("exact", exact_rows(g, s.term))
      [] s.kind = "contains" -> OrderedResults("contains", contains_rows(g, s.term))
      [] s.kind = "words" -> OrderedResults("words", word_rows(g, split(lower(s.term))))

\* Lines 40-43: query is called; session = None, response = None.
query_call ==
    /\ pc = "idle"
    /\ sessions_opened < MaxSessions
    /\ statement' \in Statements
    /\ session' = NoSession
    /\ query_response' = None
    /\ pc' = "query_try"
    /\ UNCHANGED << graph, store_reachable, engine_vars, open_sessions, sessions_opened,
                    load_vars, call_vars, page_vars >>

\* Line 45: self._driver.session(...) opens a session, or raises (a closed
\* driver) and leaves session = None.
query_session ==
    /\ pc = "query_try"
    /\ \/ /\ session' = sessions_opened + 1
          /\ sessions_opened' = sessions_opened + 1
          /\ open_sessions' = open_sessions \cup {sessions_opened + 1}
          /\ pc' = "query_run"
       \/ /\ pc' = "query_except"
          /\ UNCHANGED << session, sessions_opened, open_sessions >>
    /\ UNCHANGED << graph, store_reachable, engine_vars, statement, query_response,
                    load_vars, call_vars, page_vars >>

\* Line 46: response = list(session.run(query, parameters)); running raises
\* when the store cannot be reached, and query_response stays None.
query_run ==
    /\ pc = "query_run"
    /\ IF store_reachable
       THEN /\ \E rows \in StatementResults(graph, statement) : query_response' = Response(rows)
            /\ pc' = "query_finally"
       ELSE /\ pc' = "query_except"
            /\ UNCHANGED query_response
    /\ UNCHANGED << graph, store_reachable, engine_vars, statement, session,
                    open_sessions, sessions_opened, load_vars, call_vars, page_vars >>

\* The except branch left without running the finally block (the session
\* closed at the end of the try block instead).
query_except_returning ==
    /\ pc = "query_except"
    /\ pc' = "query_return"
    /\ UNCHANGED << graph, store_reachable, engine_vars, session_vars, load_vars, call_vars,
                    page_vars >>

\* Lines 47-48: except Exception: print("Query failed:", e).
query_except ==
    /\ pc = "query_except"
    /\ pc' = "query_finally"
    /\ UNCHANGED << graph, store_reachable, engine_vars, session_vars, load_vars, call_vars,
                    page_vars >>

\* Lines 49-51: finally: if session is not None: session.close().
query_finally ==
    /\ pc = "query_finally"
    /\ open_sessions' = IF session # NoSession THEN open_sessions \ {session}
                        ELSE open_sessions
    /\ pc' = "query_return"
    /\ UNCHANGED << graph, store_reachable, engine_vars, statement, session, query_response,
                    sessions_opened, load_vars, call_vars, page_vars >>

\* Line 52: return query_response; the locals of the call are gone.
query_return ==
    /\ pc = "query_return"
    /\ pc' = "idle"
    /\ statement' = NoStatement
    /\ session' = NoSession
    /\ query_response' = None
    /\ UNCHANGED << graph, store_reachable, engine_vars, open_sessions, sessions_opened,
                    load_vars, call_vars, page_vars >>

\* The store is reachable or not: either is possible at every call.
InitQuery ==
    /\ graph \in Graphs
    /\ store_reachable \in BOOLEAN
    /\ llm_reachable = TRUE
    /\ Idle
    /\ Rest

\* The connection to the store is lost or comes back between two calls.
store_changes ==
    /\ pc = "idle"
    /\ store_reachable' = ~store_reachable
    /\ UNCHANGED << graph, pc, engine_vars, other_vars >>

NextQuery ==
    \/ query_call
    \/ query_session
    \/ query_run
    \/ query_except
    \/ query_finally
    \/ query_return
    \/ store_changes

SpecQuery == InitQuery /\ [][NextQuery]_vars

\* ------------------------------------------------ the store out of reach

\* The engine is constructed while the store cannot be reached: __init__ of
\* Neo4jConnection prints "Neo4j connection failed" and returns, and every
\* query fails.
InitUnreachable ==
    /\ graph \in Graphs
    /\ store_reachable = FALSE
    /\ llm_reachable = TRUE
    /\ Idle
    /\ Rest

SpecUnreachable == InitUnreachable /\ [][Next]_vars

\* ----------------------------------------- GraphRAGLoader: parsing a row

\* Whether p occurs in s at index i, ignoring letter case (re.IGNORECASE).
StartsAtIgnoringCase(s, p, i) ==
    /\ i >= 1
    /\ i + Len(p) - 1 <= Len(s)
    /\ \A k \in 1..Len(p) : ToLowerChar(s[i + k - 1]) = ToLowerChar(p[k])

\* The two prefixes of the patterns of parse_uses_field, as the patterns
\* write them (with the space that follows).
TreatmentOf == <<"T", "r", "e", "a", "t", "m", "e", "n", "t", " ", "o", "f", " ">>

PreventionOf == <<"P", "r", "e", "v", "e", "n", "t", "i", "o", "n", " ", "o", "f", " ">>

\* (?=Treatment of|Prevention of|$) at index i: the text of a cell has no
\* line break, so $ is the end of the text.
UsesLookahead(s, i) ==
    \/ i = Len(s) + 1
    \/ StartsAtIgnoringCase(s, <<"T", "r", "e", "a", "t", "m", "e", "n", "t", " ", "o", "f">>, i)
    \/ StartsAtIgnoringCase(s, <<"P", "r", "e", "v", "e", "n", "t", "i", "o", "n", " ", "o", "f">>, i)

\* [^T] under re.IGNORECASE: neither T nor t.
NotT(c) == ToLowerChar(c) # "t"

\* ([^T]+?) followed by the lookahead, for a group whose characters up to
\* e - 1 are taken: the index of the last character of the shortest group,
\* 0 when a T comes before the lookahead holds.
RECURSIVE GroupEnd(_, _)
GroupEnd(s, e) ==
    IF e > Len(s) \/ ~NotT(s[e]) THEN 0
    ELSE IF UsesLookahead(s, e + 1) THEN e
    ELSE GroupEnd(s, e + 1)

\* re.findall(pattern, uses_text, re.IGNORECASE) for the pattern of the
\* given prefix: the groups of the matches, left to right.
RECURSIVE FindUsesFrom(_, _, _)
FindUsesFrom(s, prefix, i) ==
    IF i > Len(s) THEN << >>
    ELSE IF StartsAtIgnoringCase(s, prefix, i)
         THEN LET e == GroupEnd(s, i + Len(prefix))
              IN  IF e = 0 THEN FindUsesFrom(s, prefix, i + 1)
                  ELSE << SubSeq(s, i + Len(prefix), e) >> \o FindUsesFrom(s, prefix, e + 1)
    ELSE FindUsesFrom(s, prefix, i + 1)

\* str.split(sep): the pieces between the occurrences of sep, empty pieces
\* included.
RECURSIVE SplitOnFrom(_, _, _, _)
SplitOnFrom(s, sep, i, start) ==
    IF i > Len(s) THEN << SubSeq(s, start, Len(s)) >>
    ELSE IF StartsAt(s, sep, i)
         THEN << SubSeq(s, start, i - 1) >>
                  \o SplitOnFrom(s, sep, i + Len(sep), i + Len(sep))
    ELSE SplitOnFrom(s, sep, i + 1, start)

SplitOn(s, sep) == SplitOnFrom(s, sep, 1, 1)

\* Lines 42-45: every part is split by sep.
RECURSIVE SplitParts(_, _)
SplitParts(parts, sep) ==
    IF parts = << >> THEN << >>
    ELSE SplitOn(Head(parts), sep) \o SplitParts(Tail(parts), sep)

\* Line 38.
separators ==
    << <<" ", "T", "r", "e", "a", "t", "m", "e", "n", "t", " ", "o", "f", " ">>, <<" ", "P", "r", "e", "v", "e", "n", "t", "i", "o", "n", " ", "o", "f", " ">>, <<",">>, <<";">>, <<" ", "a", "n", "d", " ">>, <<" ", "o", "r", " ">> >>

\* Lines 41-45: the parts after the separators from the k-th on are applied.
RECURSIVE SplitBySeparators(_, _)
SplitBySeparators(parts, k) ==
    IF k > Len(separators) THEN parts
    ELSE SplitBySeparators(SplitParts(parts, separators[k]), k + 1)

\* The stripped elements of a list that are not empty after stripping.
StrippedNonempty(parts) ==
    SelectSeq([k \in 1..Len(parts) |-> strip(parts[k])], LAMBDA part : part # << >>)

\* Line 54: re.sub(r'^(Treatment of |Prevention of )', '', use, re.IGNORECASE).
WithoutPrefix(use) ==
    IF StartsAtIgnoringCase(use, TreatmentOf, 1)
    THEN SubSeq(use, Len(TreatmentOf) + 1, Len(use))
    ELSE IF StartsAtIgnoringCase(use, PreventionOf, 1)
    THEN SubSeq(use, Len(PreventionOf) + 1, Len(use))
    ELSE use

\* A use or an effect is kept when it has more than MinLength characters.
MinLength == 2

\* Lines 12-58.
parse_uses_field(uses_text) ==
    LET matches == FindUsesFrom(uses_text, TreatmentOf, 1)
                       \o FindUsesFrom(uses_text, PreventionOf, 1)
        found == StrippedNonempty(matches)
        uses_list == IF found # << >> THEN found
                     ELSE StrippedNonempty(SplitBySeparators(<< uses_text >>, 1))
        cleaned == [k \in 1..Len(uses_list) |-> WithoutPrefix(strip(uses_list[k]))]
    IN  IF uses_text = << >> THEN << >>
        ELSE SelectSeq(cleaned, LAMBDA use : Len(use) > MinLength)

\* re.split(r'[,;]|\s+(?=[A-Z])', effects_text): the text is cut at every
\* comma and semicolon and at every run of whitespace that an upper-case
\* letter follows.
RECURSIVE EffectsSplitFrom(_, _, _)
EffectsSplitFrom(s, i, start) ==
    IF i > Len(s) THEN << SubSeq(s, start, Len(s)) >>
    ELSE IF s[i] \in {",", ";"}
         THEN << SubSeq(s, start, i - 1) >> \o EffectsSplitFrom(s, i + 1, i + 1)
    ELSE IF /\ IsSpace(s[i])
            /\ SpaceRunEnd(s, i) < Len(s)
            /\ IsUpper(s[SpaceRunEnd(s, i) + 1])
         THEN << SubSeq(s, start, i - 1) >>
                  \o EffectsSplitFrom(s, SpaceRunEnd(s, i) + 1, SpaceRunEnd(s, i) + 1)
    ELSE EffectsSplitFrom(s, i + 1, start)

\* Lines 60-74.
parse_side_effects_field(effects_text) ==
    IF effects_text = << >> THEN << >>
    ELSE SelectSeq(StrippedNonempty(EffectsSplitFrom(effects_text, 1, 1)),
                   LAMBDA effect : Len(effect) > MinLength)

\* ------------------------------------------- GraphRAGLoader: the CSV file

\* The columns load_csv_to_graph reads of a row, in the order it reads them.
ColumnsRead == << "Medicine Name", "Composition", "Manufacturer", "Uses", "Side_effects" >>

\* A cell of the DataFrame: a text, or NaN for an empty cell.
Cell(text) == [nan |-> FALSE, text |-> text]

NaN == [nan |-> TRUE, text |-> << >>]

\* pd.notna(cell).
notna(cell) == ~cell.nan

\* str(cell).
str(cell) == IF cell.nan THEN <<"n", "a", "n">> ELSE cell.text

\* The rows of the model's files. The second row is the same medicine
\* (with blanks around its name) with empty cells, and names a disease of
\* the first row in another letter case.
CsvRows ==
    { ("Medicine Name" :> Cell(<<"A", "d", "v", "a", "c", "a", "n">>)) @@ ("Composition" :> Cell(<<"E", "v", "e", "r", "o", "l", "i", "m", "u", "s">>))
        @@ ("Manufacturer" :> Cell(<<"B", "i", "o", "c", "o", "n">>))
        @@ ("Uses" :> Cell(<<"T", "r", "e", "a", "t", "m", "e", "n", "t", " ", "o", "f", " ", "L", "u", "n", "g", " ", "c", "a", "n", "c", "e", "r", "P", "r", "e", "v", "e", "n", "t", "i", "o", "n", " ", "o", "f", " ", "F", "e", "v", "e", "r">>))
        @@ ("Side_effects" :> Cell(<<"N", "a", "u", "s", "e", "a", ",", " ", "F", "e", "v", "e", "r">>)),
      ("Medicine Name" :> Cell(<<" ", "A", "d", "v", "a", "c", "a", "n", " ">>)) @@ ("Composition" :> NaN)
        @@ ("Manufacturer" :> NaN)
        @@ ("Uses" :> Cell(<<"T", "r", "e", "a", "t", "m", "e", "n", "t", " ", "o", "f", " ", "L", "u", "n", "g", " ", "C", "a", "n", "c", "e", "r">>))
        @@ ("Side_effects" :> NaN) }

\* The most rows of a file of the model.
MaxRows == 2

\* The column sets of the model's files: complete, and with one column missing.
ColumnSets ==
    { Range(ColumnsRead), Range(ColumnsRead) \ {"Medicine Name"},
      Range(ColumnsRead) \ {"Uses"} }

\* A file pd.read_csv cannot read (missing, or not a CSV).
UnreadableCsv == [readable |-> FALSE, columns |-> {}, rows |-> << >>]

\* The files load_csv_to_graph is called on.
CsvFiles ==
    { [readable |-> TRUE, columns |-> columns,
       rows |-> [k \in 1..Len(rows) |-> [c \in columns |-> rows[k][c]]]] :
        columns \in ColumnSets,
        rows \in UNION { [1..n -> CsvRows] : n \in 0..MaxRows } }
    \cup { UnreadableCsv }

\* -------------------------------------------- GraphRAGLoader: the queries

\* A property a node does not have.
NoProperty == << Null >>

\* The nodes of a label with a name.
Matching(g, label, name) ==
    {n \in BagToSet(g.nodes) : n.label = label /\ n.name = name}

\* CREATE in place of MERGE: a node is created whether or not one matches.
Merge_creating(g, label, name) ==
    [g EXCEPT !.nodes =
        @ (+) SetToBag({Node(label, name, NoProperty, NoProperty, NoProperty)})]

\* MERGE (x:label {name: $name}): a node is created when none matches.
Merge(g, label, name) ==
    IF Matching(g, label, name) = {}
    THEN [g EXCEPT !.nodes =
             @ (+) SetToBag({Node(label, name, NoProperty, NoProperty, NoProperty)})]
    ELSE g

\* MERGE with the properties in the pattern: MERGE (x:label {name: $name,
\* normalized_name: ..., ...}) creates a node unless one has all of them.
MergeSet_matching_all_properties(g, node) ==
    IF BagIn(node, g.nodes) THEN g
    ELSE [g EXCEPT !.nodes = @ (+) SetToBag({node})]

\* MERGE (x:label {name: $name}) SET ...: the matched or created nodes get the
\* properties of `node` that are set (NoProperty: not set by the query).
MergeSet(g, node) ==
    LET merged == Merge(g, node.label, node.name)
        Set(n) ==
            IF n.label = node.label /\ n.name = node.name
            THEN [n EXCEPT
                    !.normalized_name =
                        IF node.normalized_name = NoProperty THEN @ ELSE node.normalized_name,
                    !.composition =
                        IF node.composition = NoProperty THEN @ ELSE node.composition,
                    !.manufacturer =
                        IF node.manufacturer = NoProperty THEN @ ELSE node.manufacturer]
            ELSE n
    IN  [merged EXCEPT !.nodes = BagOfAll(Set, @)]

\* Lines 129-140: medicine_query.
medicine_query(g, name, composition, manufacturer) ==
    MergeSet(g, Node("Medicine", name, lower(name), composition, manufacturer))

\* Lines 143-155: comp_query.
comp_query(g, name, composition, manufacturer) ==
    LET merged == Merge(Merge(Merge(g, "Composition", composition),
                              "Manufacturer", manufacturer),
                        "Medicine", name)
    IN  [merged EXCEPT
            !.has_composition = @ \cup {<< name, composition >>},
            !.manufactured_by = @ \cup {<< name, manufacturer >>}]

\* Lines 159-170: disease_query.
disease_query_of(g, name, disease) ==
    LET merged == Merge(MergeSet(g, Node("Disease", disease, lower(disease),
                                         NoProperty, NoProperty)),
                        "Medicine", name)
    IN  [merged EXCEPT !.used_for = @ \cup {<< name, disease >>}]

\* Lines 174-185: effect_query.
effect_query(g, name, effect) ==
    LET merged == Merge(MergeSet(g, Node("SideEffect", effect, lower(effect),
                                         NoProperty, NoProperty)),
                        "Medicine", name)
    IN  [merged EXCEPT !.has_side_effect = @ \cup {<< name, effect >>}]

\* Lines 158 and 173: the for loops over uses_list and effects_list.
RECURSIVE ForDiseases(_, _, _)
ForDiseases(g, name, uses_list) ==
    IF uses_list = << >> THEN g
    ELSE ForDiseases(disease_query_of(g, name, Head(uses_list)), name, Tail(uses_list))

RECURSIVE ForEffects(_, _, _)
ForEffects(g, name, effects_list) ==
    IF effects_list = << >> THEN g
    ELSE ForEffects(effect_query(g, name, Head(effects_list)), name, Tail(effects_list))

\* Lines 120-126: the values load_csv_to_graph takes from a row.
RowValues(row) ==
    [medicine |-> strip(str(row["Medicine Name"])),
     composition |-> IF notna(row["Composition"]) THEN strip(str(row["Composition"]))
                     ELSE <<"U", "n", "k", "n", "o", "w", "n">>,
     manufacturer |-> IF notna(row["Manufacturer"]) THEN strip(str(row["Manufacturer"]))
                      ELSE <<"U", "n", "k", "n", "o", "w", "n">>,
     uses_list |-> parse_uses_field(IF notna(row["Uses"]) THEN str(row["Uses"]) ELSE << >>),
     effects_list |->
        parse_side_effects_field(IF notna(row["Side_effects"]) THEN str(row["Side_effects"])
                                 ELSE << >>)]

\* The queries of a row with the medicine's USED_FOR and HAS_SIDE_EFFECT
\* edges deleted first (a row replacing what an earlier row wrote).
row_queries_replacing_medicine(g, row) ==
    LET v == RowValues(row)
        detached == [g EXCEPT !.used_for = {e \in @ : e[1] # v.medicine},
                              !.has_side_effect = {e \in @ : e[1] # v.medicine}]
    IN  ForEffects(ForDiseases(comp_query(medicine_query(detached, v.medicine, v.composition,
                                                         v.manufacturer),
                                          v.medicine, v.composition, v.manufacturer),
                               v.medicine, v.uses_list),
                   v.medicine, v.effects_list)

\* Lines 128-185: the graph after the queries of one row.
row_queries(g, row) ==
    LET v == RowValues(row)
    IN  ForEffects(ForDiseases(comp_query(medicine_query(g, v.medicine, v.composition,
                                                         v.manufacturer),
                                          v.medicine, v.composition, v.manufacturer),
                               v.medicine, v.uses_list),
                   v.medicine, v.effects_list)

\* The graph after db.query has run a writing query: as written when the
\* store answers, unchanged when running it fails (query prints and returns).
StoreAfter(reachable, g, written) == IF reachable THEN written ELSE g

\* ---------------------------------------------------- load_csv_to_graph

\* The labels create_enhanced_graph_constraints constrains (lines 79-83).
ConstrainedLabels == {"Medicine", "Disease", "Composition", "Manufacturer", "SideEffect"}

\* Lines 100-102: load_csv_to_graph(csv_path) is called.
load_begin ==
    /\ pc = "idle"
    /\ csv' \in CsvFiles
    /\ pc' = "load_constraints"
    /\ UNCHANGED << graph, store_reachable, engine_vars, session_vars, df, row_index,
                    medicine, successful_loads, failed_loads, constraints, load_log,
                    previous_load, page_vars, call_vars >>

\* Lines 76-98 (called at line 105): the constraint and index queries, each
\* in its own try block; IF NOT EXISTS leaves an existing constraint alone.
create_enhanced_graph_constraints ==
    /\ pc = "load_constraints"
    /\ constraints' = StoreAfter(store_reachable, constraints, constraints \cup ConstrainedLabels)
    /\ load_log' = Append(load_log, "constraints")
    /\ pc' = "load_reset"
    /\ UNCHANGED << graph, store_reachable, engine_vars, session_vars, csv, df, row_index,
                    medicine, successful_loads, failed_loads, previous_load, page_vars, call_vars >>

\* Lines 107-109: MATCH (n) DETACH DELETE n.
load_reset ==
    /\ pc = "load_reset"
    /\ graph' = StoreAfter(store_reachable, graph, NoGraph)
    /\ load_log' = Append(load_log, "reset")
    /\ pc' = "load_read"
    /\ UNCHANGED << store_reachable, engine_vars, session_vars, csv, df, row_index, medicine,
                    successful_loads, failed_loads, constraints, previous_load, page_vars, call_vars >>

\* Lines 111-116: df = pd.read_csv(csv_path), which raises out of
\* load_csv_to_graph for a file it cannot read; the counters start at 0.
load_read ==
    /\ pc = "load_read"
    /\ IF csv.readable
       THEN /\ df' = csv
            /\ row_index' = 1
            /\ pc' = "load_rows"
       ELSE /\ pc' = "load_raised"
            /\ UNCHANGED << df, row_index >>
    /\ successful_loads' = 0
    /\ failed_loads' = 0
    /\ load_log' = Append(load_log, "read")
    /\ UNCHANGED << graph, store_reachable, engine_vars, session_vars, csv, medicine,
                    constraints, previous_load, page_vars, call_vars >>

\* Lines 192-194: the except handler. failed_loads is counted, then the
\* message is formatted with `medicine`: when no row has bound it yet, the
\* print raises UnboundLocalError out of the handler and of load_csv_to_graph.
RowFailed(bound) ==
    /\ failed_loads' = failed_loads + 1
    /\ IF bound
       THEN /\ row_index' = row_index + 1
            /\ pc' = "load_rows"
       ELSE /\ pc' = "load_raised"
            /\ UNCHANGED row_index

\* Lines 118-194: one turn of the for loop. row[column] raises KeyError for
\* a column the file does not have; the columns are read (lines 120-126)
\* before the first query is sent.
load_row ==
    /\ pc = "load_rows"
    /\ row_index <= Len(df.rows)
    /\ IF "Medicine Name" \notin df.columns
       THEN /\ RowFailed(medicine.bound)
            /\ UNCHANGED << graph, medicine, successful_loads >>
       ELSE /\ medicine' = Bound(strip(str(df.rows[row_index]["Medicine Name"])))
            /\ IF Range(ColumnsRead) \subseteq df.columns
               THEN /\ graph' = StoreAfter(store_reachable, graph,
                                           row_queries(graph, df.rows[row_index]))
                    /\ successful_loads' = successful_loads + 1
                    /\ row_index' = row_index + 1
                    /\ pc' = "load_rows"
                    /\ UNCHANGED failed_loads
               ELSE /\ RowFailed(TRUE)
                    /\ UNCHANGED << graph, successful_loads >>
    /\ load_log' = Append(load_log, "row")
    /\ UNCHANGED << store_reachable, engine_vars, session_vars, csv, df, constraints,
                    previous_load, page_vars, call_vars >>

\* Lines 196-197: the loop is over and the two counters are printed.
load_report ==
    /\ pc = "load_rows"
    /\ row_index > Len(df.rows)
    /\ load_log' = Append(load_log, "report")
    /\ pc' = "load_verify"
    /\ UNCHANGED << graph, store_reachable, engine_vars, session_vars, csv, df, row_index,
                    medicine, successful_loads, failed_loads, constraints, previous_load,
                    page_vars, call_vars >>

\* Lines 202-220 (called at line 200): three MATCH ... RETURN queries whose
\* rows are printed.
verify_lung_cancer_data ==
    /\ pc = "load_verify"
    /\ load_log' = Append(load_log, "verify")
    /\ pc' = "loaded"
    /\ UNCHANGED << graph, store_reachable, engine_vars, session_vars, csv, df, row_index,
                    medicine, successful_loads, failed_loads, constraints, previous_load,
                    page_vars, call_vars >>

\* src/app.py, lines 301-310: load_csv_to_graph has returned, or has raised
\* and the page has reported it; the file and the graph it left are kept to
\* compare the next load with.
load_end ==
    /\ pc \in {"loaded", "load_raised"}
    /\ previous_load' = [ended |-> TRUE, csv |-> csv, graph |-> graph]
    /\ csv' = NoCsv
    /\ df' = NoCsv
    /\ row_index' = 0
    /\ medicine' = Unbound
    /\ successful_loads' = 0
    /\ failed_loads' = 0
    /\ load_log' = << >>
    /\ pc' = "idle"
    /\ UNCHANGED << graph, store_reachable, engine_vars, session_vars, constraints,
                    page_vars, call_vars >>

\* Before the first load the store is empty.
InitLoad ==
    /\ graph = NoGraph
    /\ store_reachable \in BOOLEAN
    /\ llm_reachable = TRUE
    /\ Idle
    /\ Rest

NextLoad ==
    \/ load_begin
    \/ create_enhanced_graph_constraints
    \/ load_reset
    \/ load_read
    \/ load_row
    \/ load_report
    \/ verify_lung_cancer_data
    \/ load_end
    \/ get_comprehensive_medicine_info
    \/ next_request

\* Loads one after another, with lookups between them.
SpecLoad == InitLoad /\ [][NextLoad]_vars

\* ------------------------------------------------------- the page flows

\* src/app.py, lines 125-134: MATCH (m:Medicine {name: $med_name}) with its
\* four OPTIONAL MATCHes; one row for every (composition, manufacturer) of
\* the medicine, with the collected names held as sets.
explain_rows(g, med_name) ==
    { [medicine |-> n.name, composition |-> c, manufacturer |-> man,
       uses |-> Collected(g.used_for, n.name),
       side_effects |-> Collected(g.has_side_effect, n.name)] :
        n \in {n \in BagToSet(g.nodes) : n.label = "Medicine" /\ n.name = med_name},
        c \in OptionalMatch(g.has_composition, med_name),
        man \in OptionalMatch(g.manufactured_by, med_name) }

\* src/app.py, lines 124-135: "Explain Medicine" is pressed with a medicine
\* name in the box; the query is run and `result` is bound.
explain_query ==
    /\ pc = "idle"
    /\ \E medicine_name \in MedicineNames \cup {UnknownMedicine} :
          /\ page' = [flow |-> "explain", text |-> medicine_name, lines |-> << >>]
          /\ \E result \in db_query(store_reachable, Perms(explain_rows(graph, medicine_name))) :
                context' = Bound(result)
    /\ pc' = "explain"
    /\ UNCHANGED << graph, store_reachable, engine_vars, session_vars, load_vars, call_vars,
                    llm_reachable, llm_calls, shown >>

\* chain.invoke(inputs): the hosted model is called; a call that fails
\* raises out of invoke.
Invoke(flow, inputs) ==
    /\ llm_calls' = Append(llm_calls, [flow |-> flow, context |-> inputs])
    /\ IF llm_reachable
       THEN /\ shown' = shown \o << "answer", "raw data" >>
            /\ pc' = "page_done"
       ELSE /\ pc' = "page_raised"
            /\ UNCHANGED shown

\* The explanation asked for whatever the query returned.
explain_answer_unchecked ==
    /\ pc = "explain"
    /\ Invoke("explain", context.value.rows)
    /\ UNCHANGED << graph, store_reachable, engine_vars, session_vars, load_vars, call_vars, page,
                    context, llm_reachable >>

\* src/app.py, lines 136-146: `if result and result[0]['medicine']` the
\* first row goes to assistant_chain.invoke and the answer is shown; else
\* the not-found error is shown. invoke is not inside a try block.
explain_answer ==
    /\ pc = "explain"
    /\ IF Truthy(context.value) /\ context.value.rows[1].medicine # << >>
       THEN Invoke("explain", << context.value.rows[1] >>)
       ELSE /\ shown' = Append(shown, "not found")
            /\ pc' = "page_done"
            /\ UNCHANGED llm_calls
    /\ UNCHANGED << graph, store_reachable, engine_vars, session_vars, load_vars, call_vars, page,
                    context, llm_reachable >>

\* The diagnoses and the prescriptions (the lines of the text area) of the
\* model.
Diagnoses == { <<"F", "e", "v", "e", "r">>, <<"l", "u", "n", "g", " ", "c", "a", "n", "c", "e", "r">> }

Prescriptions ==
    { << <<"A", "d", "v", "a", "c", "a", "n">> >>, << <<" ", "Z", "o", "l", "e", "t", "a", " ">>, << >>, <<"A", "d", "v", "a", "c", "a", "n">> >>, << <<"K", "e", "l", "v", "i", "n">>, <<"Z", "o", "l", "e", "t", "a">> >> }

\* src/app.py, line 180: [med.strip() for med in lines if med.strip()].
RECURSIVE meds_list(_)
meds_list(lines) ==
    IF lines = << >> THEN << >>
    ELSE (IF strip(Head(lines)) # << >> THEN << strip(Head(lines)) >> ELSE << >>)
            \o meds_list(Tail(lines))

\* src/app.py, lines 182-193: the rows of the justification query, one for
\* every (medicine, treats_diagnosis) of a prescribed medicine that is in
\* the graph and treats a side effect of another prescribed medicine; the
\* second MATCH is not optional, so a medicine that treats none has no row.
justify_rows(g, meds, diag) ==
    LET Prescribed ==
            {n.name : n \in {n \in BagToSet(g.nodes) :
                                n.label = "Medicine" /\ n.name \in Range(meds)}}
        Treated(m) ==
            UNION { { << se, other_med >> :
                        se \in {se \in Collected(g.has_side_effect, other_med) :
                                  \E disease_treated \in Collected(g.used_for, m) :
                                      lower(disease_treated) = lower(se)} } :
                    other_med \in Prescribed \ {m} }
        Diagnosis(m) ==
            LET found == {x \in Collected(g.used_for, m) : lower(x) = lower(diag)}
            IN  IF found = {} THEN {NoProperty} ELSE found
    IN  UNION { { [medicine |-> m, treats_diagnosis |-> d,
                   treats_side_effect_of |-> Treated(m)] : d \in Diagnosis(m) } :
                m \in {m \in Prescribed : Treated(m) # {}} }

\* src/app.py, lines 177-195: "Justify Prescription" is pressed with a
\* diagnosis and a prescription; the query is run and `result` is bound.
justify_query ==
    /\ pc = "idle"
    /\ \E diagnosis \in Diagnoses, prescription \in Prescriptions :
          /\ page' = [flow |-> "justify", text |-> diagnosis, lines |-> prescription]
          /\ \E result \in db_query(store_reachable,
                                    Perms(justify_rows(graph, meds_list(prescription),
                                                       diagnosis))) :
                context' = Bound(result)
    /\ pc' = "justify"
    /\ UNCHANGED << graph, store_reachable, engine_vars, session_vars, load_vars, call_vars,
                    llm_reachable, llm_calls, shown >>

\* src/app.py, lines 197-211: `if result` the rows go to
\* justifier_chain.invoke and the analysis is shown; else the error is
\* shown. invoke is not inside a try block.
justify_answer ==
    /\ pc = "justify"
    /\ IF Truthy(context.value)
       THEN Invoke("justify", context.value.rows)
       ELSE /\ shown' = Append(shown, "not found")
            /\ pc' = "page_done"
            /\ UNCHANGED llm_calls
    /\ UNCHANGED << graph, store_reachable, engine_vars, session_vars, load_vars, call_vars, page,
                    context, llm_reachable >>

\* The questions asked on the FAQ tab.
FaqQuestions == { <<"m", "e", "d", "i", "c", "i", "n", "e", "s", " ", "f", "o", "r", " ", "f", "e", "v", "e", "r">>, <<"l", "u", "n", "g", " ", "c", "a", "n", "c", "e", "r">>, <<"h", "e", "a", "d", "a", "c", "h", "e">> }

\* GraphQueryEngine.retrieve_context_for_rag(user_query): the rows the
\* retrieval finds for the normalized question, as the context; a failed
\* retrieval gives None.
retrieve_context_for_rag(g, reachable, user_query) ==
    db_query(reachable, Perms(contains_rows(g, normalize_query(user_query))))

\* get_rag_response(user_query, context, groq_client): the model's text, or
\* the text of the error when the call failed; it does not raise.
get_rag_response(reachable) == IF reachable THEN "answer" ELSE "error text"

\* src/streamlit_app.py, lines 80-84: "Search in Database" is pressed and
\* rag_context is bound.
faq_retrieve ==
    /\ pc = "idle"
    /\ \E user_query \in FaqQuestions :
          /\ page' = [flow |-> "faq", text |-> user_query, lines |-> << >>]
          /\ \E rag_context \in retrieve_context_for_rag(graph, store_reachable, user_query) :
                context' = Bound(rag_context)
    /\ pc' = "faq"
    /\ UNCHANGED << graph, store_reachable, engine_vars, session_vars, load_vars, call_vars,
                    llm_reachable, llm_calls, shown >>

\* src/streamlit_app.py, lines 85-108: `if not rag_context or not
\* rag_context.get("context")` the error is shown; else the medicine found
\* is shown, get_rag_response is called and what it returns is shown.
faq_answer ==
    /\ pc = "faq"
    /\ IF ~Truthy(context.value)
       THEN /\ shown' = Append(shown, "not found")
            /\ UNCHANGED llm_calls
       ELSE /\ llm_calls' = Append(llm_calls, [flow |-> "faq", context |-> context.value.rows])
            /\ shown' = shown \o << "found", get_rag_response(llm_reachable), "raw data" >>
    /\ pc' = "page_done"
    /\ UNCHANGED << graph, store_reachable, engine_vars, session_vars, load_vars, call_vars, page,
                    context, llm_reachable >>

\* The script run of the page is over: it returned, or Streamlit caught the
\* exception it raised and rendered it.
page_end ==
    /\ pc \in {"page_done", "page_raised"}
    /\ page' = NoPage
    /\ context' = Unbound
    /\ llm_calls' = << >>
    /\ shown' = << >>
    /\ pc' = "idle"
    /\ UNCHANGED << graph, store_reachable, engine_vars, session_vars, load_vars, call_vars,
                    llm_reachable >>

\* A loaded graph; the store and the hosted model each answer or not.
InitPage ==
    /\ graph \in Graphs
    /\ store_reachable \in BOOLEAN
    /\ llm_reachable \in BOOLEAN
    /\ Idle
    /\ Rest

NextPage ==
    \/ explain_query
    \/ explain_answer
    \/ justify_query
    \/ justify_answer
    \/ faq_retrieve
    \/ faq_answer
    \/ page_end

SpecPage == InitPage /\ [][NextPage]_vars

\* ------------------------------------------------ the symptom-to-drug finder

\* The texts typed into the symptoms box.
SymptomTexts ==
    { <<"N", "a", "u", "s", "e", "a">>, <<"n", "a", "u", "s", "e", "a", ",", " ", "f", "e", "v", "e", "r">>, <<"N", "a", "u", "s", "e", "a", ",", " ", "N", "a", "u", "s", "e", "a">>, <<"F", "e", "v", "e", "r", ",">>, <<" ", "F", "E", "V", "E", "R", " ", ",", "n", "a", "u", "s", "e", "a">>,
      <<"F", "e", "v", "e", "r", ",", " ", "H", "e", "a", "d", "a", "c", "h", "e">>, <<"H", "e", "a", "d", "a", "c", "h", "e">> }

\* src/app.py, line 224: [s.strip().lower() for s in symptoms.split(',')].
symptoms_list(symptoms) ==
    LET items == SplitOn(symptoms, <<",">>)
    IN  [k \in 1..Len(items) |-> lower(strip(items[k]))]

\* src/app.py, lines 226-233: for every medicine, count(s) over its side
\* effects whose lower-cased name is IN $symptoms; the medicine is returned
\* when the count equals size($symptoms), the length of the list.
symptom_rows(g, symptoms) ==
    { [medicine |-> m] :
        m \in { e[1] : e \in { e \in g.has_side_effect : lower(e[2]) \in Range(symptoms) } }
              \cap { m \in { e[1] : e \in g.has_side_effect } :
                       Cardinality({ s \in Collected(g.has_side_effect, m) :
                                       lower(s) \in Range(symptoms) }) = Len(symptoms) } }

\* src/app.py, lines 221-240: "Find Potential Drugs" is pressed with a text
\* in the box; the query is run and its medicines, or the warning, are shown.
symptoms_find ==
    /\ pc = "idle"
    /\ \E symptoms \in SymptomTexts :
          /\ page' = [flow |-> "symptoms", text |-> symptoms, lines |-> << >>]
          /\ \E result \in db_query(store_reachable,
                                    Perms(symptom_rows(graph, symptoms_list(symptoms)))) :
                /\ context' = Bound(result)
                /\ shown' = IF Truthy(result) THEN << "medicines" >> ELSE << "no medicine" >>
    /\ pc' = "page_done"
    /\ UNCHANGED << graph, store_reachable, engine_vars, session_vars, load_vars, call_vars,
                    llm_reachable, llm_calls >>

NextSymptoms == symptoms_find \/ page_end

SpecSymptoms == InitPage /\ [][NextSymptoms]_vars

\* ------------------------------------------------ parse_uses_field, alone

\* The conditions the uses texts of the model are written with.
UsesConditions ==
    { <<"B", "r", "e", "a", "s", "t", " ", "c", "a", "n", "c", "e", "r">>, <<"L", "u", "n", "g", " ", "c", "a", "n", "c", "e", "r">>, <<"F", "e", "v", "e", "r">>, <<"T", "u", "b", "e", "r", "c", "u", "l", "o", "s", "i", "s">>, <<"G", "o", "u", "t">> }

\* A segment of a uses text: a prefix and a condition.
UsesSegments ==
    { prefix \o condition : prefix \in {TreatmentOf, PreventionOf}, condition \in UsesConditions }

\* The most segments of a uses text of the model.
MaxSegments == 2

\* The elements of a sequence of texts, run together.
RECURSIVE Concatenated(_)
Concatenated(texts) ==
    IF texts = << >> THEN << >> ELSE Head(texts) \o Concatenated(Tail(texts))

\* The Uses cells of the CSV: segments run together with no separator.
UsesTexts ==
    { Concatenated(segments) :
        segments \in UNION { [1..n -> UsesSegments] : n \in 1..MaxSegments } }

\* parse_uses_field(uses_text) is called and returns (lines 12-58).
parse_uses_call ==
    /\ pc = "idle"
    /\ \E text \in UsesTexts :
          /\ uses_field' = text
          /\ parsed_uses' = parse_uses_field(text)
    /\ pc' = "parsed"
    /\ UNCHANGED << graph, store_reachable, engine_vars, session_vars, load_vars, page_vars,
                    cypher_input, cypher >>

\* The caller (load_csv_to_graph, line 125) is done with the list.
parse_uses_done ==
    /\ pc = "parsed"
    /\ uses_field' = << >>
    /\ parsed_uses' = << >>
    /\ pc' = "idle"
    /\ UNCHANGED << graph, store_reachable, engine_vars, session_vars, load_vars, page_vars,
                    cypher_input, cypher >>

InitParse ==
    /\ graph = NoGraph
    /\ store_reachable = TRUE
    /\ llm_reachable = TRUE
    /\ Idle
    /\ Rest

NextParse == parse_uses_call \/ parse_uses_done

SpecParse == InitParse /\ [][NextParse]_vars

\* --------------------------------------------------- normalize_query, alone

\* The phrases the replacement table replaces.
ReplacedPhrases == { replacements[k].old : k \in 1..Len(replacements) }

\* What a question of the model is made of: a start, a body and an end.
NormalizeStarts ==
    { << >>, <<" ", " ">> } \cup ReplacedPhrases \cup { <<"W", "h", "a", "t", " ">> \o phrase : phrase \in ReplacedPhrases }

NormalizeBodies ==
    { << >>, <<" ", "l", "u", "n", "g", " ", "c", "a", "n", "c", "e", "r">>, <<" ", "L", "u", "n", "g", " ", "C", "a", "n", "c", "e", "r", "s">>, <<" ", "l", "u", "n", "g", " ", "c", "a", "n", "c", "e", "r", "s", "s">>, <<" ", "f", "e", "v", "e", "r", "?">>,
      <<" ", "t", "r", "e", "a", "t", "m", "e", "n", "t", " ", "f", "o", "r", "m", "e", "d", "i", "c", "i", "n", "e", "s", " ", "f", "o", "r">>, <<"m", "e", "d", "i", "c", "i", "n", "e", "s", "d", "r", "u", "g", "s", " ", "f", "o", "r", " ", "f", "o", "r", " ", "g", "o", "u", "t">> }

NormalizeEnds == { << >>, <<"s">>, <<" ", "t", "r", "e", "a", "t", " ", "a", "c", "n", "e", " ">> }

NormalizeQuestions ==
    { start \o body \o end :
        start \in NormalizeStarts, body \in NormalizeBodies, end \in NormalizeEnds }

\* normalize_query(q) is called and returns (lines 20-39).
normalize_call ==
    /\ pc = "idle"
    /\ \E q \in NormalizeQuestions :
          /\ query' = q
          /\ normalized_query' = normalize_query(q)
    /\ pc' = "normalized"
    /\ UNCHANGED << graph, store_reachable, extracted_diseases, loop_vars, search_vars,
                    medicine_info, other_vars >>

\* The caller is done with the normalized query.
normalize_done ==
    /\ pc = "normalized"
    /\ query' = << >>
    /\ normalized_query' = << >>
    /\ pc' = "idle"
    /\ UNCHANGED << graph, store_reachable, extracted_diseases, loop_vars, search_vars,
                    medicine_info, other_vars >>

NextNormalize == normalize_call \/ normalize_done

SpecNormalize == InitParse /\ [][NextNormalize]_vars

\* --------------------------------------------- generate_cypher_query, alone

\* Lines 187, 201 and 209: the phrases that choose the branch.
RecommendationPhrases ==
    { <<"w", "h", "i", "c", "h", " ", "m", "e", "d", "i", "c", "i", "n", "e", "s">>, <<"w", "h", "a", "t", " ", "m", "e", "d", "i", "c", "i", "n", "e", "s">>, <<"m", "e", "d", "i", "c", "i", "n", "e", "s", " ", "f", "o", "r">>, <<"d", "r", "u", "g", "s", " ", "f", "o", "r">> }

SideEffectPhrases == { <<"s", "i", "d", "e", " ", "e", "f", "f", "e", "c", "t", "s">>, <<"a", "d", "v", "e", "r", "s", "e", " ", "e", "f", "f", "e", "c", "t", "s">> }

ManufacturerPhrases == { <<"m", "a", "d", "e", " ", "b", "y">>, <<"m", "a", "n", "u", "f", "a", "c", "t", "u", "r", "e", "d", " ", "b", "y">>, <<"m", "a", "n", "u", "f", "a", "c", "t", "u", "r", "e", "r">> }

\* The query string a branch returns: the template of the branch, and the
\* disease the f-string of lines 192-199 writes between the quotes of
\* toLower('{disease}') (empty in the templates that embed nothing).
Cypher(template, disease) == [is_none |-> FALSE, template |-> template, disease |-> disease]

\* The recommendation branch embedding the normalized query in place of
\* the first extracted disease.
generate_cypher_query_embedding_query(natural_query) ==
    LET nq == normalize_query(natural_query)
    IN  IF \E phrase \in RecommendationPhrases : Contains(nq, phrase)
        THEN { IF diseases # << >> THEN Cypher("recommendation", nq) ELSE NoCypher :
                  diseases \in extract_disease_from_query(natural_query) }
        ELSE IF \E phrase \in SideEffectPhrases : Contains(nq, phrase)
        THEN { Cypher("side effects", << >>) }
        ELSE IF \E phrase \in ManufacturerPhrases : Contains(nq, phrase)
        THEN { Cypher("manufacturer", << >>) }
        ELSE { Cypher("generic", << >>) }

\* Lines 182-226: the values generate_cypher_query can return, one for every
\* order of the list extract_disease_from_query returns. The recommendation
\* branch has no return for an empty list: the method then ends and returns
\* None (NoCypher).
generate_cypher_query(natural_query) ==
    LET nq == normalize_query(natural_query)
    IN  IF \E phrase \in RecommendationPhrases : Contains(nq, phrase)
        THEN { IF diseases # << >> THEN Cypher("recommendation", diseases[1]) ELSE NoCypher :
                  diseases \in extract_disease_from_query(natural_query) }
        ELSE IF \E phrase \in SideEffectPhrases : Contains(nq, phrase)
        THEN { Cypher("side effects", << >>) }
        ELSE IF \E phrase \in ManufacturerPhrases : Contains(nq, phrase)
        THEN { Cypher("manufacturer", << >>) }
        ELSE { Cypher("generic", << >>) }

\* What a question of the model is made of: a start and a body.
CypherStarts ==
    { << >>, <<"w", "h", "i", "c", "h", " ", "m", "e", "d", "i", "c", "i", "n", "e", "s", " ", "h", "e", "l", "p", " ">>, <<"W", "h", "a", "t", " ", "m", "e", "d", "i", "c", "i", "n", "e", "s", " ", "c", "u", "r", "e", " ">>, <<"m", "e", "d", "i", "c", "i", "n", "e", "s", " ", "f", "o", "r", " ">>,
      <<"d", "r", "u", "g", "s", " ", "f", "o", "r", " ">>, <<"w", "h", "i", "c", "h", " ", "m", "e", "d", "i", "c", "i", "n", "e", "s", " ", "t", "r", "e", "a", "t", " ">>, <<"s", "i", "d", "e", " ", "e", "f", "f", "e", "c", "t", "s", " ", "o", "f", " ">>,
      <<"a", "d", "v", "e", "r", "s", "e", " ", "e", "f", "f", "e", "c", "t", "s", " ", "o", "f", " ", "w", "h", "i", "c", "h", " ", "m", "e", "d", "i", "c", "i", "n", "e", "s", " ", "f", "o", "r", " ">>, <<"m", "a", "d", "e", " ", "b", "y", " ">>, <<"m", "a", "n", "u", "f", "a", "c", "t", "u", "r", "e", "r", " ", "o", "f", " ">>,
      <<"W", "h", "i", "c", "h", " ", "d", "r", "u", "g", "s", " ", "f", "o", "r", " ">>, <<"w", "h", "a", "t", " ", "m", "e", "d", "i", "c", "i", "n", "e", "s", " ", "w", "o", "r", "k", " ", "o", "n", " ">> }

CypherBodies ==
    { << >>, <<"l", "u", "n", "g", " ", "c", "a", "n", "c", "e", "r">>, <<"h", "e", "a", "d", "a", "c", "h", "e">>, <<"o", "'", "n", "e", "i", "l", "'", "s", " ", "d", "i", "s", "e", "a", "s", "e">>, <<"b", "a", "d", "'", " ", "s", "k", "i", "n", " ", "i", "n", "f", "e", "c", "t", "i", "o", "n">>,
      <<"l", "u", "n", "g", " ", "c", "a", "n", "c", "e", "r", " ", "a", "n", "d", " ", "b", "r", "e", "a", "s", "t", " ", "c", "a", "n", "c", "e", "r">>, <<"A", "d", "v", "a", "c", "a", "n">>, <<"k", "i", "d", "n", "e", "y", " ", " ", "d", "i", "s", "e", "a", "s", "e", "?">>,
      <<"b", "r", "e", "a", "s", "t", " ", "c", "a", "r", "c", "i", "n", "o", "m", "a">>, <<"r", "a", "r", "e", " ", "x", "-", "l", "i", "n", "k", "e", "d", " ", "s", "y", "n", "d", "r", "o", "m", "e">>, <<"b", "r", "a", "i", "n", " ", "t", "u", "m", "o", "r", ";", " ", "f", "e", "v", "e", "r">> }

CypherQuestions == { start \o body : start \in CypherStarts, body \in CypherBodies }

\* generate_cypher_query(natural_query) is called and returns.
generate_call ==
    /\ pc = "idle"
    /\ \E q \in CypherQuestions :
          /\ cypher_input' = q
          /\ cypher' \in generate_cypher_query(q)
    /\ pc' = "generated"
    /\ UNCHANGED << graph, store_reachable, engine_vars, session_vars, load_vars, page_vars,
                    uses_field, parsed_uses >>

\* The caller is done with the query string.
generate_done ==
    /\ pc = "generated"
    /\ cypher_input' = << >>
    /\ cypher' = NoCypher
    /\ pc' = "idle"
    /\ UNCHANGED << graph, store_reachable, engine_vars, session_vars, load_vars, page_vars,
                    uses_field, parsed_uses >>

NextCypher == generate_call \/ generate_done

SpecCypher == InitParse /\ [][NextCypher]_vars

\* ----------------------------------------------------------- properties

\* semantic_disease_search has returned a nonempty list it got from the
\* given strategy ("exact", "contains" or "words").
AnsweredBy(strategy) ==
    /\ pc = "returned"
    /\ search_results # << >>
    /\ issued # << >>
    /\ issued[Len(issued)] = strategy

\* The words of the term of the running search.
TermWords == split(lower(disease_query))

\* The number of the given words that a disease name contains.
ContainedWords(words, name) ==
    Cardinality({k \in 1..Len(words) : Contains(lower(name), words[k])})

\* The USED_FOR edges whose disease name equals the term ignoring case.
TreatingEdges(term) == {e \in graph.used_for : lower(e[2]) = lower(term)}

\* The (medicine, disease) pairs of a list of rows.
PairsOf(rows) ==
    {<< rows[k].medicine, rows[k].disease_treated >> : k \in 1..Len(rows)}

\* Whether one phrasing of the synonym table occurs in the text.
SynonymHit(text) ==
    \E k \in 1..Len(disease_synonyms) :
        \E n \in 1..Len(disease_synonyms[k].synonyms) :
            Contains(text, disease_synonyms[k].synonyms[n])

CanonicalKeys == {disease_synonyms[k].main : k \in 1..Len(disease_synonyms)}

EndsWith(s, suffix) ==
    Len(s) >= Len(suffix) /\ SubSeq(s, Len(s) - Len(suffix) + 1, Len(s)) = suffix

\* C1: within one semantic_disease_search, once the exact-match query has
\* returned at least one row no further query is sent to the store, and once
\* the substring query has returned at least one row the word query is not
\* sent.
C1_NoLooserStrategyAfterRows ==
    /\ exact_results.rows # << >> => issued = << "exact" >>
    /\ contains_results.rows # << >> => issued = << "exact", "contains" >>

\* C1 witness: a term of several words (for which the word query could be
\* sent) was answered by the substring query, and the search has returned.
C1_Witness ==
    /\ pc = "returned"
    /\ contains_results.rows # << >>
    /\ Len(TermWords) > 1

\* What the three strategies find for a term in the graph, strictest first:
\* the rows of the first one that finds any.
FirstNonemptyRows(term) ==
    LET exact == exact_rows(graph, term)
        contains == contains_rows(graph, term)
        words == word_rows(graph, split(lower(term)))
    IN  IF exact # {} THEN exact ELSE IF contains # {} THEN contains ELSE words

\* C2: semantic_disease_search never raises while the store answers, and the
\* list it returns holds exactly the rows of the first strategy (exact,
\* substring, token overlap) that finds any row in the graph, each row once;
\* it is the empty list when none of them finds a row.
C2_ReturnsFirstNonempty ==
    /\ pc # "raised"
    /\ pc = "returned" =>
        \A rows \in {FirstNonemptyRows(disease_query)} :
            /\ Range(search_results) = rows
            /\ Len(search_results) = Cardinality(rows)

\* C2 witness: all three queries were sent, none found a row, and the search
\* returned the empty list.
C2_Witness ==
    /\ pc = "returned"
    /\ issued = << "exact", "contains", "words" >>
    /\ ~word_results.is_none
    /\ search_results = << >>

\* C3 as claimed: whenever strategies 1 and 2 found no row, the word query
\* has been sent before semantic_disease_search returns, whatever the term.
C3_WordQueryAlwaysSent ==
    (pc = "returned" /\ exact_results.rows = << >> /\ contains_results.rows = << >>)
        => issued = << "exact", "contains", "words" >>

\* C3 amended: when strategies 1 and 2 found no row, the word query is sent
\* exactly when the term has more than one word; for a term of one word or
\* none the search returns the empty list without sending it.
C3_WordQueryOnlyForSeveralWords ==
    (pc = "returned" /\ exact_results.rows = << >> /\ contains_results.rows = << >>)
        => IF Len(TermWords) > 1
           THEN issued = << "exact", "contains", "words" >>
           ELSE issued = << "exact", "contains" >> /\ search_results = << >>

\* C3 witness: a one-word term found nothing in strategies 1 and 2 and the
\* search returned the empty list with the word query never sent.
C3_Witness ==
    /\ pc = "returned"
    /\ Len(TermWords) = 1
    /\ issued = << "exact", "contains" >>
    /\ search_results = << >>

MedicinesForLungCancer == <<"m", "e", "d", "i", "c", "i", "n", "e", "s", " ", "f", "o", "r", " ", "l", "u", "n", "g", " ", "c", "a", "n", "c", "e", "r">>

\* C4: when some disease of the graph with a USED_FOR medicine is named as
\* the term ignoring case, the search is answered by the exact-match query
\* alone and returns exactly the (medicine, disease) pairs of the USED_FOR
\* edges into such diseases; and "medicines for lung cancer" is normalized
\* to "lung cancer" with the one extracted condition "lung cancer".
C4_ExactMatchAnswers ==
    /\ pc = "returned" =>
        \A edges \in {TreatingEdges(disease_query)} :
            edges # {} =>
                /\ issued = << "exact" >>
                /\ PairsOf(search_results) = edges
                /\ \A k \in 1..Len(search_results) :
                      lower(search_results[k].disease_treated) = lower(disease_query)
    /\ query = MedicinesForLungCancer =>
        /\ normalized_query = <<"l", "u", "n", "g", " ", "c", "a", "n", "c", "e", "r">>
        /\ extracted_diseases = << <<"l", "u", "n", "g", " ", "c", "a", "n", "c", "e", "r">> >>

\* C4 witness: "medicines for lung cancer" was answered from a graph that
\* holds two diseases named "lung cancer" up to letter case.
C4_Witness ==
    /\ pc = "returned"
    /\ query = MedicinesForLungCancer
    /\ {e[2] : e \in TreatingEdges(disease_query)} = { <<"L", "u", "n", "g", " ", "c", "a", "n", "c", "e", "r">>, <<"L", "u", "n", "g", " ", "C", "a", "n", "c", "e", "r">> }
    /\ Len(search_results) >= 2

\* C5: in an answer of the token-overlap strategy every row's disease name
\* contains (ignoring case) at least one word of the term, and a row never
\* comes after a row with fewer contained words, nor after a row with as
\* many contained words and a longer disease name.
C5_WordRowsRanked ==
    AnsweredBy("words") =>
        \A words \in {TermWords} :
            /\ \A k \in 1..Len(search_results) :
                  ContainedWords(words, search_results[k].disease_treated) >= 1
            /\ \A i, j \in 1..Len(search_results) :
                  i < j =>
                    \A a \in {search_results[i].disease_treated} :
                    \A b \in {search_results[j].disease_treated} :
                    \A na \in {ContainedWords(words, a)} :
                    \A nb \in {ContainedWords(words, b)} :
                        \/ na > nb
                        \/ na = nb /\ Len(a) <= Len(b)

\* C5 witness: a token-overlap answer in which a longer disease name with
\* more contained words precedes a shorter one with fewer.
C5_Witness ==
    /\ AnsweredBy("words")
    /\ \E words \in {TermWords} :
       \E i, j \in 1..Len(search_results) :
          /\ i < j
          /\ ContainedWords(words, search_results[i].disease_treated)
                > ContainedWords(words, search_results[j].disease_treated)
          /\ Len(search_results[i].disease_treated)
                > Len(search_results[j].disease_treated)

\* C6: in an answer of the substring strategy every row's disease name
\* contains the term ignoring case, and a row never comes after a row with a
\* longer disease name.
C6_ContainsRowsByLength ==
    AnsweredBy("contains") =>
        /\ \A k \in 1..Len(search_results) :
              Contains(lower(search_results[k].disease_treated), lower(disease_query))
        /\ \A i, j \in 1..Len(search_results) :
              i < j => Len(search_results[i].disease_treated)
                          <= Len(search_results[j].disease_treated)

\* C6 witness: a substring answer with disease names of two lengths, the
\* shorter one under the medicine whose name sorts last.
C6_Witness ==
    /\ AnsweredBy("contains")
    /\ \E i, j \in 1..Len(search_results) :
          /\ i < j
          /\ Len(search_results[i].disease_treated) < Len(search_results[j].disease_treated)
          /\ StrLess(search_results[j].medicine, search_results[i].medicine)

\* C7: for every canonical condition and every phrasing listed for it, a
\* question holding that phrasing in any letter case (the questions are a
\* phrasing alone or after a filler phrase, possibly with a tail) yields a
\* list that contains the canonical condition.
C7_PhrasingGivesCanonical ==
    pc = "extracted" =>
        \A k \in 1..Len(disease_synonyms) :
            \A n \in 1..Len(disease_synonyms[k].synonyms) :
                Contains(lower(query), disease_synonyms[k].synonyms[n])
                    => disease_synonyms[k].main \in Range(extracted_diseases)

\* C7 witness: an upper-case question, a filler phrase followed by a phrasing
\* that is not the canonical one, gave the canonical condition.
C7_Witness ==
    /\ pc = "extracted"
    /\ query = upper(<<"t", "r", "e", "a", "t", "m", "e", "n", "t", " ", "f", "o", "r", " ", "c", "e", "r", "e", "b", "r", "a", "l", " ", "t", "u", "m", "o", "r">>)
    /\ extracted_diseases = << <<"b", "r", "a", "i", "n", " ", "t", "u", "m", "o", "r">> >>

DrugForHighFever == <<"d", "r", "u", "g", " ", "f", "o", "r", " ", "h", "i", "g", "h", " ", "f", "e", "v", "e", "r">>

\* C8 as claimed: "drug for high fever" yields the candidate "high fever".
C8_ForPatternCandidate ==
    (pc # "idle" /\ query = DrugForHighFever)
        => <<"h", "i", "g", "h", " ", "f", "e", "v", "e", "r">> \in Range(extracted_diseases)

\* C8 amended: when neither the synonym table nor the regex yields a
\* condition, nothing is extracted (no positional rule, no single-word
\* conditions), and the only term searched is the whole normalized query.
\* Stated of a finished request: nothing was extracted and the one term
\* searched was the normalized query, unless a synonym occurs in the
\* normalized query or the regex matches in it.
C8_NothingExtractedThenDirectSearch ==
    pc = "done" =>
        \/ extracted_diseases = << >> /\ searched = << normalized_query >>
        \/ SynonymHit(normalized_query)
        \/ medical_terms(normalized_query) # << >>

\* C8 witness: "drug for high fever" extracted nothing, and the search with
\* the whole normalized query found rows.
C8_Witness ==
    /\ pc = "returned"
    /\ query = DrugForHighFever
    /\ extracted_diseases = << >>
    /\ disease_query = DrugForHighFever
    /\ search_results # << >>

\* C9: when a phrasing of the synonym table occurs in the normalized query,
\* every extracted condition is a canonical key of the table; otherwise
\* every extracted condition is a piece of the normalized query that ends in
\* cancer, tumor, disease, syndrome or infection.
C9_RegexOnlyWithoutSynonym ==
    pc = "extracted" =>
        IF SynonymHit(normalized_query)
        THEN Range(extracted_diseases) \subseteq CanonicalKeys
        ELSE \A d \in Range(extracted_diseases) :
                /\ Contains(normalized_query, d)
                /\ \E k \in 1..Len(medical_suffixes) : EndsWith(d, medical_suffixes[k])

\* C9 witness: a phrasing matched in a query in which the regex would have
\* found a term that is no canonical key, and only the key was extracted.
C9_Witness ==
    /\ pc = "extracted"
    /\ SynonymHit(normalized_query)
    /\ \E k \in 1..Len(medical_terms(normalized_query)) :
          medical_terms(normalized_query)[k] \notin CanonicalKeys
    /\ Range(extracted_diseases) \subseteq CanonicalKeys

\* The distinct elements of a list in the order of their first occurrence.
FirstOccurrences(s) ==
    LET keep == {k \in 1..Len(s) : \A j \in 1..(k - 1) : s[j] # s[k]}
        nth(n) == CHOOSE k \in keep : Cardinality({j \in keep : j < k}) = n - 1
    IN  [n \in 1..Cardinality(keep) |-> s[nth(n)]]

\* C10: the extracted conditions come in the order in which they were found
\* (table order for synonym matches, text order for regex matches), and the
\* searches are run for them one after another in that order.
C10_DefinedOrder ==
    pc # "idle" =>
        /\ extracted_diseases = FirstOccurrences(found_diseases(query))
        /\ extracted_diseases # << >> =>
              searched = SubSeq(extracted_diseases, 1, Len(searched))

\* Whether no disease name of the graph holds the text, or one of its words,
\* ignoring case.
NoDiseaseLike(text) ==
    \A e \in graph.used_for :
        /\ ~Contains(lower(e[2]), lower(text))
        /\ \A w \in Range(split(lower(text))) : ~Contains(lower(e[2]), w)

\* C11: for a query in which no phrasing of the synonym table occurs and
\* the regex finds nothing, extract_disease_from_query returns the empty
\* list, the request does not raise, and its result has extracted_diseases
\* empty; when no disease name of the graph holds the normalized query or
\* one of its words either, medicines_found is empty and total_medicines 0.
C11_NothingMatchesIsNormal ==
    (pc # "idle" /\ pc # "info") =>
        \A nq \in {normalize_query(query)} :
            (~SynonymHit(nq) /\ medical_terms(nq) = << >>) =>
                /\ extracted_diseases = << >>
                /\ pc # "raised"
                /\ (pc = "done" /\ NoDiseaseLike(nq)) =>
                      /\ results.medicines_found = << >>
                      /\ results.total_medicines = 0
                      /\ results.search_strategies_used = << >>

\* C11 witness: "headache" was answered over a graph that holds diseases,
\* none of them like it: nothing extracted, nothing found.
C11_Witness ==
    /\ pc = "done"
    /\ query = <<"h", "e", "a", "d", "a", "c", "h", "e">>
    /\ extracted_diseases = << >>
    /\ graph.used_for # {}
    /\ results.total_medicines = 0

\* C12: no step of semantic_disease_search, answer_natural_language_query
\* or get_comprehensive_medicine_info changes the graph.
C12_RetrievalReadOnly == [][graph' = graph]_vars

\* C12 witness: a lookup of a medicine the graph does not hold has returned
\* the empty dict.
C12_Witness ==
    /\ pc = "info"
    /\ medicine_info = << >>
    /\ graph.used_for # {}

\* C13: the only session that can be open is the one of the running call,
\* and none is open when the call is about to return or has returned,
\* whether the query ran or raised.
C13_SessionClosedOnReturn ==
    /\ open_sessions \subseteq {session}
    /\ pc \in {"idle", "query_return"} => open_sessions = {}

\* C13 witness: a second call opened a session, running the query raised,
\* and the call is about to return None.
C13_Witness ==
    /\ pc = "query_return"
    /\ session # NoSession
    /\ sessions_opened = 2
    /\ query_response.is_none
    /\ ~store_reachable

\* C14 as claimed: with the store out of reach no request raises, and every
\* finished request has no medicines and total_medicines 0.
C14_UnreachableDegradesToEmpty ==
    ~store_reachable =>
        /\ pc # "raised"
        /\ pc = "done" =>
              /\ results.medicines_found = << >>
              /\ results.total_medicines = 0


\* ------------------------------------------------------------- the loader

\* The (label, name) pairs of the nodes of a graph, one for every node.
NodeKeys(g) ==
    LET Key(n) == << n.label, n.name >>
    IN  BagOfAll(Key, g.nodes)

\* C16: when load_csv_to_graph has run on the file of the load before it,
\* the graph holds the nodes it held after that load, and the same number
\* of nodes of every label, and no node twice.
C16_SecondLoadSameNodes ==
    (pc = "loaded" /\ previous_load.ended /\ previous_load.csv = csv) =>
        /\ graph.nodes = previous_load.graph.nodes
        /\ \A label \in ConstrainedLabels :
              Cardinality({n \in BagToSet(graph.nodes) : n.label = label})
                = Cardinality({n \in BagToSet(previous_load.graph.nodes) : n.label = label})
        /\ \A n \in BagToSet(graph.nodes) : CopiesIn(n, graph.nodes) = 1

\* C16 witness: the second load of a file of two different rows has ended,
\* and the graph holds nodes.
C16_Witness ==
    /\ pc = "loaded"
    /\ previous_load.ended
    /\ previous_load.csv = csv
    /\ Len(csv.rows) = 2
    /\ csv.rows[1] # csv.rows[2]
    /\ successful_loads = 2
    /\ graph.nodes # EmptyBag

\* C17 as claimed: after a load no two distinct nodes of a label have names
\* that are equal after lower-casing.
C17_IdentityByLowercasedName ==
    pc = "loaded" =>
        \A n, o \in BagToSet(graph.nodes) :
            (n.label = o.label /\ lower(n.name) = lower(o.name)) => n = o

\* C17: after a load node identity is keyed by the name as written: for
\* every label, no two distinct nodes of that label have the same name
\* (names that differ in letter case only are different nodes), and a
\* Medicine, Disease or SideEffect node holds its lower-cased name as
\* normalized_name.
C17_IdentityByName ==
    pc = "loaded" =>
        /\ \A key \in BagToSet(NodeKeys(graph)) : CopiesIn(key, NodeKeys(graph)) = 1
        /\ \A n \in BagToSet(graph.nodes) :
              n.label \in {"Medicine", "Disease", "SideEffect"} =>
                  n.normalized_name = lower(n.name)

\* C17 witness: a load of two rows of one medicine has ended with one
\* Medicine node and with two Disease nodes whose names differ in letter
\* case only.
C17_Witness ==
    /\ pc = "loaded"
    /\ successful_loads = 2
    /\ Cardinality({n \in BagToSet(graph.nodes) : n.label = "Medicine"}) = 1
    /\ \E n, o \in BagToSet(graph.nodes) :
          n.label = "Disease" /\ o.label = "Disease" /\ n # o
            /\ lower(n.name) = lower(o.name)

\* Whether graph h lacks a node or an edge that graph g holds.
Removes(g, h) ==
    \/ \E key \in BagToSet(NodeKeys(g)) : CopiesIn(key, NodeKeys(h)) < CopiesIn(key, NodeKeys(g))
    \/ ~(g.used_for \subseteq h.used_for)
    \/ ~(g.has_composition \subseteq h.has_composition)
    \/ ~(g.manufactured_by \subseteq h.manufactured_by)
    \/ ~(g.has_side_effect \subseteq h.has_side_effect)

\* C18: in a load the reset is the second step, after the constraints and
\* before every row, and it is issued once in a load that has ended; and a
\* step that removes a node or an edge is the reset: no row of a load, no
\* verification query and no lookup removes one.
C18_OnlyResetDeletes ==
    /\ [](/\ \A k \in 1..Len(load_log) :
                /\ load_log[k] = "reset" => (k = 2 /\ load_log[1] = "constraints")
                /\ load_log[k] = "row" => (k > 2 /\ load_log[2] = "reset")
          /\ pc \in {"loaded", "load_raised"} =>
                Cardinality({k \in 1..Len(load_log) : load_log[k] = "reset"}) = 1)
    /\ [][Removes(graph, graph') => pc = "load_reset"]_vars

\* C18 witness: a load of two rows has ended after its reset emptied the
\* graph of the load before it, and a lookup has then found a medicine.
C18_Witness ==
    /\ pc = "info"
    /\ medicine_info # << >>
    /\ previous_load.ended
    /\ Len(previous_load.csv.rows) = 2
    /\ graph.used_for # {}

\* C19 as claimed: a load whose file was read reaches its end whatever its
\* rows are, and at its end successful_loads + failed_loads is the number
\* of rows.
C19_RowFailuresTolerated ==
    /\ pc = "load_raised" => ~csv.readable
    /\ pc = "loaded" => successful_loads + failed_loads = Len(df.rows)

\* ----------------------------------------------------------- the pages

\* C15 as claimed: a page flow whose LLM call fails does not raise: it ends
\* with the error text shown in place of the answer.
C15_LlmFailureShownAsText ==
    /\ pc # "page_raised"
    /\ (pc = "page_done" /\ llm_calls # << >> /\ ~llm_reachable) =>
          \E k \in 1..Len(shown) : shown[k] = "error text"

\* Whether `context` is bound to a retrieval result the flow takes for
\* nonempty.
ContextFound ==
    /\ context.bound
    /\ Truthy(context.value)
    /\ page.flow = "explain" => context.value.rows[1].medicine # << >>

\* C20: in the flows of the three tabs a call of the LLM has been made only
\* when the retrieval has returned and its result is nonempty, and the call
\* is given rows of that result; a flow that ended after a retrieval that
\* found nothing has shown the not-found message and has called no LLM.
C20_LlmOnlyAfterRetrieval ==
    /\ llm_calls # << >> =>
          /\ ContextFound
          /\ Len(llm_calls) = 1
          /\ llm_calls[1].flow = page.flow
          /\ Range(llm_calls[1].context) \subseteq Range(context.value.rows)
    /\ (pc = "page_done" /\ ~ContextFound) =>
          /\ shown = << "not found" >>
          /\ llm_calls = << >>

\* C20 witness: the prescription justifier has called the LLM with the row
\* its query returned (a medicine that treats the diagnosis, which is a
\* side effect of the other one prescribed) and has shown the answer.
C20_Witness ==
    /\ pc = "page_done"
    /\ page.flow = "justify"
    /\ Len(context.value.rows) = 1
    /\ context.value.rows[1].treats_diagnosis # NoProperty
    /\ llm_calls = << [flow |-> "justify", context |-> context.value.rows] >>
    /\ shown = << "answer", "raw data" >>

\* ------------------------------------------- the engine's requests, again

\* Whether s is an initial part of t.
IsPrefix(s, t) == Len(s) <= Len(t) /\ s = SubSeq(t, 1, Len(s))

\* C22: the terms a request searches the graph with are, in order, the
\* extracted diseases when some disease was extracted, and the normalized
\* query alone when none was; a finished request has searched them all and
\* nothing else, also when no extracted disease found a medicine.
C22_DirectSearchIffNothingExtracted ==
    pc \in {"for", "strategy1", "strategy2", "strategy3", "returned", "format", "done"} =>
        /\ IsPrefix(searched, IF extracted_diseases = << >> THEN << normalized_query >>
                              ELSE extracted_diseases)
        /\ pc = "done" =>
              searched = IF extracted_diseases = << >> THEN << normalized_query >>
                         ELSE extracted_diseases

\* C22 witness: a request whose extracted disease found no medicine in a
\* graph that holds diseases is finished, and only that disease was searched.
C22_Witness ==
    /\ pc = "done"
    /\ extracted_diseases # << >>
    /\ searched = extracted_diseases
    /\ normalized_query \notin Range(extracted_diseases)
    /\ results.medicines_found = << >>
    /\ graph.used_for # {}

\* C24: in the result of a finished request medicines_found holds, in the
\* order met, the first row of every medicine name of the rows the searches
\* returned, so no medicine name twice; total_medicines is its length; and
\* search_strategies_used is empty exactly when medicines_found is.
C24_ResultShape ==
    pc = "done" =>
        /\ \A j, k \in 1..Len(results.medicines_found) :
              results.medicines_found[j].medicine = results.medicines_found[k].medicine
                  => j = k
        /\ \A k \in 1..Len(all_medicines) :
              \E j \in 1..Len(results.medicines_found) :
                  results.medicines_found[j].medicine = all_medicines[k].medicine
        /\ \A j \in 1..Len(results.medicines_found) :
              \E k \in 1..Len(all_medicines) :
                  /\ all_medicines[k] = results.medicines_found[j]
                  /\ \A i \in 1..(k - 1) :
                        all_medicines[i].medicine # results.medicines_found[j].medicine
        /\ results.total_medicines = Len(results.medicines_found)
        /\ (results.search_strategies_used = << >>) <=> (results.medicines_found = << >>)

\* C24 witness: the searches of a finished request returned two rows of one
\* medicine, and the result holds one.
C24_Witness ==
    /\ pc = "done"
    /\ Len(all_medicines) = 2
    /\ all_medicines[1].medicine = all_medicines[2].medicine
    /\ results.medicines_found = << all_medicines[1] >>
    /\ results.total_medicines = 1

\* C25 as claimed: a finished request whose normalized query is the empty
\* string has found no medicine.
C25_EmptyQueryFindsNothing ==
    (pc = "done" /\ normalized_query = << >>) =>
        /\ results.medicines_found = << >>
        /\ results.total_medicines = 0

\* ------------------------------------------------------ the loader, again

\* C29 as claimed: when load_csv_to_graph has raised because the file could
\* not be read, the graph is the one the load before it left (the graph as
\* it was before the call).
C29_UnreadableFileLeavesGraph ==
    (pc = "load_raised" /\ ~csv.readable) => graph = previous_load.graph

\* ------------------------------------------------------- parse_uses_field

\* The length of the prefix "Treatment of " or "Prevention of " that is
\* written at index i of a text, 0 when none is.
PrefixAt(s, i) ==
    IF StartsAt(s, TreatmentOf, i) THEN Len(TreatmentOf)
    ELSE IF StartsAt(s, PreventionOf, i) THEN Len(PreventionOf)
    ELSE 0

\* The conditions of a text of run-together segments: what is written
\* between a prefix and the next prefix or the end of the text.
ConditionsOf(s) ==
    LET starts == {i \in 1..Len(s) : PrefixAt(s, i) > 0}
        NextStart(i) ==
            CHOOSE j \in (starts \cup {Len(s) + 1}) :
                j > i /\ \A h \in (starts \cup {Len(s) + 1}) : h > i => j <= h
    IN  { SubSeq(s, i + PrefixAt(s, i), NextStart(i) - 1) : i \in starts }

\* C21 as claimed: for a text of run-together "Treatment of <c>" and
\* "Prevention of <c>" segments, the list parse_uses_field returns holds
\* every condition <c> of the text as written.
C21_RunTogetherUsesParsed ==
    pc = "parsed" => \A condition \in ConditionsOf(uses_field) :
                        condition \in Range(parsed_uses)

\* -------------------------------------------------------- normalize_query

\* C28 as claimed: normalizing a normalized query changes nothing, and a
\* normalized query holds none of the phrases the table replaces.
C28_NormalizeIdempotent ==
    pc = "normalized" =>
        /\ normalize_query(normalized_query) = normalized_query
        /\ \A phrase \in ReplacedPhrases : ~Contains(normalized_query, phrase)

\* -------------------------------------------------- generate_cypher_query

\* C26 as claimed: generate_cypher_query never returns None.
C26_AlwaysAQueryString ==
    pc = "generated" => ~cypher.is_none

\* C27: the disease generate_cypher_query writes between the quotes is a
\* key of the synonym table or a (stripped) match of the regex in the
\* normalized query, and each of its characters is a word character or
\* white space: it holds no quote.
C27_EmbeddedDiseaseIsPlain ==
    (pc = "generated" /\ cypher.template = "recommendation") =>
        /\ \A k \in 1..Len(cypher.disease) :
              IsWordChar(cypher.disease[k]) \/ IsSpace(cypher.disease[k])
        /\ "'" \notin Range(cypher.disease)
        /\ \/ cypher.disease \in CanonicalKeys
           \/ \E term \in Range(medical_terms(normalize_query(cypher_input))) :
                 cypher.disease = strip(term)

\* C27 witness: a recommendation question with quotes in it got the query
\* of the recommendation branch, with a regex match of its text embedded.
C27_Witness ==
    /\ pc = "generated"
    /\ "'" \in Range(cypher_input)
    /\ cypher.template = "recommendation"
    /\ cypher.disease \notin CanonicalKeys
    /\ cypher.disease # << >>

\* ------------------------------------------------ the symptom-to-drug finder

\* C23 as claimed: when the finder has answered with the store in reach,
\* a medicine is among the rows returned exactly when every entered
\* symptom (an item of the text, stripped and lower-cased) is the
\* lower-cased name of one of its side effects.
C23_ExactlyMedicinesWithAllSymptoms ==
    (pc = "page_done" /\ page.flow = "symptoms" /\ store_reachable) =>
        \A m \in MedicineNames :
            ([medicine |-> m] \in Range(context.value.rows))
                <=> \A symptom \in Range(symptoms_list(page.text)) :
                        \E effect \in Collected(graph.has_side_effect, m) :
                            lower(effect) = symptom
====
